---- MODULE Spec2Model ----
(***************************************************************************)
(* Ingestion pipeline of the Polymarket insider detector                   *)
(* (scripts/ingest.py, src/data/database.py, src/data/duckdb_writer.py,    *)
(* src/data/polymarket_client.py).                                         *)
(*                                                                         *)
(* Spec        : Phase 2, ingest_all_trades: one fetcher task per selected *)
(*               market, one writer task, the bounded queue between them,  *)
(*               the SQLite store, the optional DuckDB store, process      *)
(*               interruption and re-runs.                                 *)
(* SpecMarkets : Phase 1, ingest_markets: offset-paginated market feed,    *)
(*               upsert and offset watermark, interruption and re-runs.    *)
(***************************************************************************)
EXTENDS Integers, Sequences, FiniteSets, TLC

VARIABLES
    \* ---- persistent state (survives the process) ----
    markets,      \* SQLite table markets: id -> row
    trades,       \* SQLite table trades: set of rows, unique by id
    istate,       \* SQLite table ingestion_state: key -> value
    duck,         \* DuckDB table trades: set of rows, unique by id
    USE_DUCKDB,   \* configuration switch (environment)
    dataFeed,     \* what the Data API serves: condition id -> trades
    \* ---- Phase 2, one run of ingest_all_trades ----
    mpc,          \* position of ingest_all_trades
    selected,     \* markets returned by get_markets_without_trades
    queue,        \* asyncio.Queue contents
    unfinished,   \* asyncio.Queue unfinished-task counter (put / task_done)
    sem,          \* free slots of the semaphore
    prod,         \* per market: the fetcher task's locals and position
    cpc,          \* position of the writer task
    batch,        \* the writer's batch
    cur,          \* the sentinel the writer is handling
    result,       \* what ingest_all_trades returned
    \* ---- Phase 1, one run of ingest_markets ----
    p1,           \* locals and position of ingest_markets
    \* ---- history (not program state) ----
    runs,         \* number of process starts so far
    hist,         \* what has happened, for stating the properties
    \* ---- RateLimiter (one instance) ----
    timestamps,   \* RateLimiter._timestamps
    now,          \* time.monotonic(), in clock ticks
    acq,          \* per caller: position inside acquire and wake-up time
    granted,      \* history: the times at which acquire calls returned
    \* ---- one call of PolymarketClient._request_with_retry ----
    req,          \* position, attempt, last_exc, last wait and result of the call
    seen,         \* history: how each HTTP attempt of the call ended
    \* ---- normalize_trade applied to two payloads ----
    pay,          \* the two raw trade payloads
    norm,         \* per payload: the normalized trade, once computed
    \* ---- ClusterDetector ----
    graph,        \* ClusterDetector.graph: nodes, and edge -> weight, same_side_count
    dpc,          \* position of ClusterDetector.run
    clusters,     \* run: the list returned by detect_communities
    clusters_table,  \* SQLite table clusters, as committed: set of cluster rows
    wallet_scores,   \* SQLite table wallet_scores, as committed: wallet -> cluster_id
    insider_score,   \* SQLite column wallet_scores.insider_score, in points
    conn,         \* save_clusters: the tables as the open connection sees them
    \* ---- WalletScorer and the statistics functions ----
    scorer,       \* WalletScorer: min_trades, and the call in progress
    scores,       \* the value the scorer's call returned
    call,         \* a call of a pure function: its arguments and its result
    \* ---- InsiderMonitor ----
    mon           \* InsiderMonitor: its fields, the position of run, the alerts sent

ingestVars == <<markets, trades, istate, duck, USE_DUCKDB, dataFeed, mpc, selected, queue,
                unfinished, sem, prod, cpc, batch, cur, result, p1, runs, hist>>

limiterVars == <<timestamps, now, acq, granted>>

\* the state of the components other than the ingestion pipeline
retryVars == <<req, seen>>

fingerprintVars == <<pay, norm>>

clusterVars == <<graph, dpc, clusters, clusters_table, wallet_scores, insider_score, conn>>

statsVars == <<scorer, scores, call>>

monitorVars == <<mon>>

otherVars == <<limiterVars, retryVars, fingerprintVars, clusterVars, statsVars, monitorVars>>

vars == <<ingestVars, otherVars>>

NULL == "NULL"

(***************************************************************************)
(* Bounds of the model.  The program's tunables are scaled down so that    *)
(* their cases (full queue, full batch, short and full pages, contended    *)
(* semaphore) happen on a feed of a few records.                           *)
(***************************************************************************)
QUEUE_MAX == 2
BATCH_SIZE == 3
CONCURRENCY == 2
DATA_API_PAGE_SIZE == 2
GAMMA_PAGE_SIZE == 2
MaxRuns == 2
MaxMarketRuns == 3

\* RateLimiter: requests per window, window length in ticks, the 0.01 s added
\* to every sleep (one tick), the callers and the clock's horizon
MaxRequests == 2
Window == 3
SleepSlack == 1
NumCallers == 4
MaxTime == 7

Callers == 1..NumCallers

\* a RateLimiter just constructed, no acquire call made
LimiterIdle ==
    /\ timestamps = << >>
    /\ now = 0
    /\ acq = [c \in Callers |-> [pc |-> "idle", wake |-> 0]]
    /\ granted = << >>

\* no request made
RetryIdle ==
    /\ req = [pc |-> "idle", attempt |-> 0, last_exc |-> NULL, wait |-> 0,
             result |-> [kind |-> "none", what |-> NULL, attempt |-> 0]]
    /\ seen = << >>

\* the components other than the ingestion pipeline, untouched
\* no payload at hand
FingerprintIdle == pay = << >> /\ norm = << >>

\* wallet_scores.cluster_id of a wallet in no cluster (SQL NULL)
NoCluster == << >>

EmptyGraph == [nodes |-> {}, edges |-> << >>]

\* no open connection
NoConn == [open |-> FALSE, clusters_table |-> {}, wallet_scores |-> << >>]

\* no earlier run of the detector
NoRun ==
    [ran |-> FALSE, built |-> EmptyGraph, graph |-> EmptyGraph, communities |-> {},
     clusters |-> << >>]

\* run at rest; before, at, communities, built and first are history: the
\* persisted tables when save_clusters began, the statement at which it
\* failed, the communities Louvain returned, the graph as it was when the
\* loop over the markets ended, and what the run before this one built,
\* was given by Louvain and returned
DetectorIdle ==
    [pc |-> "idle", min_score |-> 0, high_risk_wallets |-> {}, idx |-> 0, left |-> {},
     before |-> [clusters_table |-> {}, wallet_scores |-> << >>], at |-> "none",
     communities |-> {}, built |-> EmptyGraph, first |-> NoRun]

\* a ClusterDetector just constructed, on a store without scores and clusters
ClusterIdle ==
    /\ graph = EmptyGraph
    /\ dpc = DetectorIdle
    /\ clusters = << >>
    /\ clusters_table = {}
    /\ wallet_scores = << >>
    /\ insider_score = << >>
    /\ conn = NoConn

\* no call of a pure function
NoCall == [fn |-> "none", args |-> << >>, done |-> FALSE, result |-> << >>]

\* no scorer constructed, no function called
ScorerIdle == [pc |-> "idle", min_trades |-> 0, given |-> FALSE, arg |-> 0, wallet |-> ""]

StatsIdle ==
    /\ scorer = ScorerIdle
    /\ scores = << >>
    /\ call = NoCall

\* an InsiderMonitor just constructed
NoMonitor ==
    [pc |-> "idle", running |-> FALSE, flagged_wallets |-> {}, seen_trade_ids |-> {},
     flagged_trades |-> << >>, polls |-> 0, alerted |-> << >>]

MonitorIdle == mon = NoMonitor

OthersIdle ==
    LimiterIdle /\ RetryIdle /\ FingerprintIdle /\ ClusterIdle /\ StatsIdle /\ MonitorIdle

Min(a, b) == IF a < b THEN a ELSE b

Range(s) == {s[i] : i \in DOMAIN s}

\* the value of outcomePrices on the wire: its form (a list, the JSON text
\* of a list, a text that is not JSON, or absent) and the price texts in
\* it; a text that is not JSON may carry brackets around its prices
JsonPrices(items) == [form |-> "json", items |-> items, bracketed |-> FALSE]

(***************************************************************************)
(* The remote feeds.  The Gamma feed lists closed markets; the Data API    *)
(* lists the trades of a condition id, both paginated by offset.           *)
(***************************************************************************)
\* outcomePrices is as on the wire: a JSON-encoded list of price texts.
GammaFeed ==
    << [id |-> "m1", conditionId |-> "c1", closed |-> TRUE, outcomePrices |-> JsonPrices(<<"1", "0">>)],
       [id |-> "m2", conditionId |-> "c2", closed |-> TRUE, outcomePrices |-> JsonPrices(<<"0", "1">>)],
       [id |-> "m3", conditionId |-> "c3", closed |-> TRUE, outcomePrices |-> JsonPrices(<<"0.5", "0.5">>)],
       [id |-> "m4", conditionId |-> NULL, closed |-> TRUE, outcomePrices |-> JsonPrices(<<"1", "0">>)],
       [id |-> "m5", conditionId |-> "c5", closed |-> FALSE, outcomePrices |-> JsonPrices(<<"1", "0">>)] >>

ConditionIds == {"c1", "c2", "c3", "c5"}

\* a trade record of the Data API; every value but outcomeIndex is text
RawTrade(tx, c, oi) ==
    [transactionHash |-> tx, conditionId |-> c, outcomeIndex |-> oi, timestamp |-> "1",
     proxyWallet |-> "w", size |-> "1", price |-> "0.5", side |-> "BUY"]

\* a trade record whose price is not a number
BadTrade(tx, c, oi) == [RawTrade(tx, c, oi) EXCEPT !.price = "abc"]

\* The trades the Data API serves, per condition id.  In the second feed the
\* API serves one trade of c1 twice (offset pagination over a list that
\* shifted between two requests); in the third, one record of c1 is malformed.
DataFeeds ==
    { [c \in ConditionIds |->
         CASE c = "c1" -> <<RawTrade("a", c, 0), RawTrade("b", c, 1), RawTrade("c", c, 0)>>
           [] c = "c2" -> <<RawTrade("d", c, 1)>>
           [] OTHER    -> << >>],
      [c \in ConditionIds |->
         CASE c = "c1" -> <<RawTrade("a", c, 0), RawTrade("b", c, 1), RawTrade("a", c, 0)>>
           [] c = "c2" -> <<RawTrade("d", c, 1)>>
           [] OTHER    -> << >>],
      [c \in ConditionIds |->
         CASE c = "c1" -> <<RawTrade("a", c, 0), BadTrade("b", c, 1), RawTrade("c", c, 0)>>
           [] c = "c2" -> <<RawTrade("d", c, 1)>>
           [] OTHER    -> << >>] }

MarketIds == {GammaFeed[i].id : i \in DOMAIN GammaFeed}

(***************************************************************************)
(* Normalization helpers of the client.                                    *)
(***************************************************************************)
\* float() of a price token, in thousandths
FloatOf(token) ==
    CASE token = "1" -> 1000
      [] token = "0.995" -> 995
      [] token = "0.99" -> 990
      [] token = "0.5" -> 500
      [] OTHER -> 0

\* the tokens float() raises on
NotFloat(token) == token \notin {"1", "0.995", "0.99", "0.5", "0"}

\* determine_outcome: "if not prices": the key is missing or null, or the
\* value is an empty string or an empty list
NoPrices(wire) ==
    \/ wire.form = "absent"
    \/ wire.form \in {"list", "json", "text"} /\ wire.items = << >>

\* determine_outcome: the list float() is applied to: the list itself, the
\* decoded JSON list, or the stripped pieces between the commas of a text
\* that is not JSON
PriceItems(wire) ==
    IF wire.form = "text" /\ wire.bracketed
    THEN [i \in DOMAIN wire.items |->
            IF i = 1 THEN "[..." ELSE IF i = Len(wire.items) THEN "...]" ELSE wire.items[i]]
    ELSE wire.items

determine_outcome(market) ==
    IF ~market.closed THEN NULL
    ELSE IF NoPrices(market.outcomePrices) THEN NULL
    ELSE LET prices == PriceItems(market.outcomePrices)
         IN  IF \E i \in DOMAIN prices : NotFloat(prices[i]) THEN NULL
             ELSE IF Len(prices) >= 2
                  THEN IF FloatOf(prices[1]) > 990 THEN "Yes"
                       ELSE IF FloatOf(prices[2]) > 990 THEN "No"
                       ELSE NULL
                  ELSE NULL

normalize_market(raw) ==
    [id |-> raw.id, condition_id |-> raw.conditionId,
     outcome |-> determine_outcome(raw)]

\* the keys make_trade_id reads, in the order of its f-string
FingerprintKeys ==
    <<"transactionHash", "conditionId", "outcomeIndex", "timestamp", "proxyWallet", "size">>

\* str() of an outcome index
FormatIndex(i) == IF i = 0 THEN "0" ELSE IF i = 1 THEN "1" ELSE "2"

\* f"{trade.get(key, '')}": '' for a missing key, 'None' for a null value
FormatField(trade, key) ==
    IF key \notin DOMAIN trade THEN ""
    ELSE IF key = "outcomeIndex" THEN FormatIndex(trade[key])
    ELSE IF trade[key] = NULL THEN "None"
    ELSE trade[key]

\* mutant: the fingerprint also reads the price
Fingerprint_WithPrice(trade) ==
    [i \in 1..7 |-> IF i = 7 THEN FormatField(trade, "price")
                    ELSE FormatField(trade, FingerprintKeys[i])]

\* make_trade_id: the text that is hashed, as the list of its '_'-separated parts
Fingerprint(trade) ==
    [i \in DOMAIN FingerprintKeys |-> FormatField(trade, FingerprintKeys[i])]

\* hashlib.sha256(raw.encode()).hexdigest()[:16]: a fixed function of the text,
\* taken to be free of collisions on the texts of the model
Digest(raw) == <<"sha256", raw>>

make_trade_id(trade) == Digest(Fingerprint(trade))

\* texts that float() and int() do not accept (None included)
NotNumbers == {"abc", "", NULL}

\* normalize_trade raises: float(price), float(size) or int(timestamp) fails
normalize_trade_raises(raw) ==
    \/ raw.price \in NotNumbers
    \/ raw.size \in NotNumbers
    \/ raw.timestamp \in NotNumbers

normalize_trade(raw, market_id) ==
    [kind |-> "trade", id |-> make_trade_id(raw), market_id |-> market_id,
     outcome_index |-> raw.outcomeIndex, is_winner |-> NULL]

NormalizePage(page, market_id) ==
    [i \in DOMAIN page |-> normalize_trade(page[i], market_id)]

\* the list comprehension over the page raises at its first malformed record
NormalizePageRaises(page) == \E i \in DOMAIN page : normalize_trade_raises(page[i])

(***************************************************************************)
(* The Data API: a page of at most `limit` trades from `offset`.           *)
(***************************************************************************)
DataApiTrades(condition_id, offset, limit) ==
    LET feed == dataFeed[condition_id]
    IN  SubSeq(feed, offset + 1, Min(offset + limit, Len(feed)))

\* the answers the Data API can give to GET /trades: the page, or status 400
\* for an offset past the end of the list
DataApiAnswers(condition_id, offset, limit) ==
    {[status |-> 200, body |-> DataApiTrades(condition_id, offset, limit)]}
        \cup (IF offset >= Len(dataFeed[condition_id])
               THEN {[status |-> 400, body |-> << >>]} ELSE {})

\* fetch_trades_page: resp.json(), and [] for an HTTPStatusError with status 400
fetch_trades_page(resp) == IF resp.status = 400 THEN << >> ELSE resp.body

\* mutant: the iteration goes on after a short page
ShortPage_Never(page) == FALSE

\* iter_trades_for_market: len(page) < DATA_API_PAGE_SIZE ends the iteration
ShortPage(page) == Len(page) < DATA_API_PAGE_SIZE

\* the request just answered, as the history keeps it
Request(offset, resp) ==
    [offset |-> offset, status |-> resp.status, len |-> Len(fetch_trades_page(resp))]

(***************************************************************************)
(* The SQLite store (Database).                                            *)
(***************************************************************************)
Ids(rows) == {r.id : r \in rows}

Row(item) ==
    [id |-> item.id, market_id |-> item.market_id,
     outcome_index |-> item.outcome_index, is_winner |-> item.is_winner]

\* INSERT OR REPLACE INTO markets, one row per id
upsert_markets(table, rows) ==
    [k \in DOMAIN table \cup {rows[i].id : i \in DOMAIN rows} |->
        IF \E i \in DOMAIN rows : rows[i].id = k
        THEN LET last == CHOOSE i \in DOMAIN rows :
                            /\ rows[i].id = k
                            /\ \A j \in DOMAIN rows : rows[j].id = k => j <= i
             IN  rows[last]
        ELSE table[k]]

\* INSERT OR IGNORE INTO trades: a row whose id is stored is skipped
InsertOrIgnore(table, items) ==
    table \cup {Row(items[i]) : i \in {j \in DOMAIN items : items[j].id \notin Ids(table)}}

WinningIndex(outcome) == IF outcome = "Yes" THEN 0 ELSE 1

SqlBool(b) == IF b THEN "TRUE" ELSE "FALSE"

\* UPDATE trades SET is_winner = (outcome_index = ?) WHERE market_id = ?
mark_winners(table, market_id, outcome) ==
    {IF r.market_id = market_id
     THEN [r EXCEPT !.is_winner = SqlBool(r.outcome_index = WinningIndex(outcome))]
     ELSE r : r \in table}

\* INSERT OR REPLACE INTO ingestion_state ('market_<id>_trades', count)
mark_market_trades_complete(st, market_id, trade_count) ==
    [st EXCEPT !.market_trades =
        [k \in DOMAIN st.market_trades \cup {market_id} |->
            IF k = market_id THEN trade_count ELSE st.market_trades[k]]]

HasWatermark(st, market_id) == market_id \in DOMAIN st.market_trades

\* SELECT m.* FROM markets m LEFT JOIN trades t ... WHERE m.outcome IS NOT NULL
\*   AND NOT EXISTS (watermark) GROUP BY m.id HAVING COUNT(t.id) = 0
get_markets_without_trades(mk, tr, st) ==
    {m \in DOMAIN mk :
        /\ mk[m].outcome # NULL
        /\ ~HasWatermark(st, m)
        /\ {t \in tr : t.market_id = m} = {}}

get_trade_count(tr) == Cardinality(tr)

(***************************************************************************)
(* The DuckDB store (DuckDBWriter).  trades.id is a PRIMARY KEY and the    *)
(* insert is a plain INSERT: a duplicate id raises and inserts nothing.    *)
(***************************************************************************)
HasDuplicate(items) ==
    \E i, j \in DOMAIN items : i # j /\ items[i].id = items[j].id

DuckInsertRaises(table, items) ==
    \/ HasDuplicate(items)
    \/ \E i \in DOMAIN items : items[i].id \in Ids(table)

insert_trades_batch(table, items) ==
    table \cup {Row(items[i]) : i \in DOMAIN items}

\* pandas to_sql(if_exists="append") into the SQLite table: a plain INSERT in
\* one transaction, so one stored id raises and nothing is appended.
ExportRaises(sqlite, ducktable) == Ids(sqlite) \cap Ids(ducktable) # {}

export_to_sqlite(sqlite, ducktable) == sqlite \cup ducktable

(***************************************************************************)
(* Phase 2: ingest_all_trades.                                             *)
(***************************************************************************)
Idle == [pc |-> "idle", offset |-> 0, pend |-> << >>, last |-> FALSE, trade_count |-> 0]

NoItem == [kind |-> "none"]

EndMarket(market_id, outcome, count) ==
    [kind |-> "end", market_id |-> market_id, outcome |-> outcome, count |-> count]

Alive == mpc \notin {"start", "done"}

\* wfail: how a store write of this run failed; enq: the trade ids each fetcher
\* of this run enqueued; reqfail: the markets whose page request raised; interrupted: this run follows a killed run, which had
\* selected prevSel and left the watermarks prevWm; clean: no fetcher and no
\* store has failed so far
\* fet, deq, ended: per market, the trade ids in the order its fetcher
\* fetched them, in the order the writer dequeued them, and whether the
\* writer has dequeued the market's end item
NoHistory ==
    [wfail |-> "none", enq |-> [m \in MarketIds |-> {}], reqfail |-> {},
     interrupted |-> FALSE, clean |-> TRUE, prevSel |-> {}, prevWm |-> {},
     fet |-> [m \in MarketIds |-> << >>], deq |-> [m \in MarketIds |-> << >>],
     ended |-> {}, offs |-> [m \in MarketIds |-> << >>]]

\* the history after the writer has dequeued an item
Dequeued(h, item) ==
    CASE item.kind = "trade" -> [h EXCEPT !.deq[item.market_id] = Append(@, item.id)]
      [] item.kind = "end" -> [h EXCEPT !.ended = @ \cup {item.market_id}]
      [] OTHER -> h

QueuePut_Front(q, item) == <<item>> \o q

\* asyncio.Queue.put: the item joins the queue at its end
QueuePut(q, item) == Append(q, item)

\* mutant: a queue without maxsize
CanPut_Unbounded(q) == TRUE

\* asyncio.Queue(maxsize): put waits while the queue is full
CanPut(q) == Len(q) < QUEUE_MAX

\* ingest_all_trades up to the creation of the tasks
StartRun ==
    /\ p1.pc = "done"
    /\ mpc = "start"
    /\ LET ms == get_markets_without_trades(markets, trades, istate)
       IN  /\ selected' = ms
           /\ IF ms = {}
              THEN /\ mpc' = "done"
                   /\ result' = 0
                   /\ UNCHANGED <<prod, cpc>>
              ELSE /\ mpc' = "gather"
                   /\ prod' = [m \in MarketIds |->
                                 IF m \in ms THEN [Idle EXCEPT !.pc = "wait"] ELSE Idle]
                   /\ cpc' = "get"
                   /\ UNCHANGED result
    /\ UNCHANGED <<markets, trades, istate, duck, USE_DUCKDB, dataFeed, queue, unfinished,
                   sem, batch, cur, p1, otherVars, runs, hist>>

\* asyncio.Semaphore(CONCURRENCY): acquire waits while no slot is free
CanAcquire(s) == s > 0

\* producer: async with sem, and the missing-condition-id return
ProducerAcquire(m) ==
    /\ Alive
    /\ prod[m].pc = "wait"
    /\ CanAcquire(sem)
    /\ IF markets[m].condition_id = NULL
       THEN /\ prod' = [prod EXCEPT ![m].pc = "done"]
            /\ UNCHANGED sem
       ELSE /\ prod' = [prod EXCEPT ![m].pc = "fetch"]
            /\ sem' = sem - 1
    /\ UNCHANGED <<markets, trades, istate, duck, USE_DUCKDB, dataFeed, mpc, selected, queue,
                   unfinished, cpc, batch, cur, result, p1, otherVars, runs, hist>>

\* producer: one turn of iter_trades_for_market (since_ts is None), the page
\* normalized and counted
ProducerFetch(m) ==
    /\ Alive
    /\ prod[m].pc = "fetch"
    /\ \E resp \in DataApiAnswers(markets[m].condition_id, prod[m].offset,
                                   DATA_API_PAGE_SIZE) :
         LET page == fetch_trades_page(resp)
             asked == [hist EXCEPT !.offs[m] = Append(@, Request(prod[m].offset, resp))]
         IN  IF page = << >>
             THEN /\ prod' = [prod EXCEPT ![m].pc = "sentinel"]
                  /\ hist' = asked
                  /\ UNCHANGED sem
             ELSE IF NormalizePageRaises(page)
             THEN /\ prod' = [prod EXCEPT ![m].pc = "failed"]
                  /\ sem' = sem + 1
                  /\ hist' = [asked EXCEPT !.clean = FALSE]
             ELSE /\ prod' = [prod EXCEPT
                      ![m].pc = "put",
                      ![m].pend = NormalizePage(page, m),
                      ![m].trade_count = @ + Len(page),
                      ![m].last = ShortPage(page),
                      ![m].offset = IF ShortPage(page) THEN @ ELSE @ + Len(page)]
                  /\ hist' = [asked EXCEPT !.fet[m] =
                                @ \o [i \in DOMAIN page |-> NormalizePage(page, m)[i].id]]
                  /\ UNCHANGED sem
    /\ UNCHANGED <<markets, trades, istate, duck, USE_DUCKDB, dataFeed, mpc, selected, queue,
                   unfinished, cpc, batch, cur, result, p1, otherVars, runs>>

\* producer: the page request raises (retry budget exhausted); the exception
\* is logged and the task ends, releasing the semaphore
ProducerFail(m) ==
    /\ Alive
    /\ prod[m].pc = "fetch"
    /\ prod' = [prod EXCEPT ![m].pc = "failed"]
    /\ sem' = sem + 1
    /\ hist' = [hist EXCEPT !.clean = FALSE, !.reqfail = @ \cup {m}]
    /\ UNCHANGED <<markets, trades, istate, duck, USE_DUCKDB, dataFeed, mpc, selected, queue,
                   unfinished, cpc, batch, cur, result, p1, otherVars, runs>>

\* producer: await queue.put(t) for the next trade of the page
ProducerPut(m) ==
    /\ Alive
    /\ prod[m].pc = "put"
    /\ CanPut(queue)
    /\ LET t == Head(prod[m].pend)
           rest == Tail(prod[m].pend)
       IN  /\ queue' = QueuePut(queue, t)
           /\ unfinished' = unfinished + 1
           /\ prod' = [prod EXCEPT
                    ![m].pend = rest,
                    ![m].pc = IF rest # << >> THEN "put"
                              ELSE IF prod[m].last THEN "sentinel" ELSE "fetch"]
           /\ hist' = [hist EXCEPT !.enq[m] = @ \cup {t.id}]
    /\ UNCHANGED <<markets, trades, istate, duck, USE_DUCKDB, dataFeed, mpc, selected, sem,
                   cpc, batch, cur, result, p1, otherVars, runs>>

\* producer: the end-of-market item, then the semaphore is released
ProducerSentinel(m) ==
    /\ Alive
    /\ prod[m].pc = "sentinel"
    /\ CanPut(queue)
    /\ queue' = QueuePut(queue, EndMarket(m, markets[m].outcome, prod[m].trade_count))
    /\ unfinished' = unfinished + 1
    /\ prod' = [prod EXCEPT ![m].pc = "done"]
    /\ sem' = sem + 1
    /\ UNCHANGED <<markets, trades, istate, duck, USE_DUCKDB, dataFeed, mpc, selected, cpc,
                   batch, cur, result, p1, otherVars, runs, hist>>

(***************************************************************************)
(* The writer task (consumer).  A store write either succeeds or raises:   *)
(* "env" is a failure of the store itself (disk, lock), "pk" a primary-key *)
(* violation.  A raise ends the writer task; nothing of the failed         *)
(* statement is kept.                                                      *)
(***************************************************************************)
Wrote(tr, dk) == [why |-> "none", trades |-> tr, duck |-> dk]

Raised(why) == [why |-> why, trades |-> trades, duck |-> duck]

\* the flush of a batch: executemany + commit, or insert_trades_batch
FlushOutcomes(b) ==
    IF b = << >> THEN {Wrote(trades, duck)}
    ELSE {Raised("env")} \cup
         {IF USE_DUCKDB
          THEN IF DuckInsertRaises(duck, b) THEN Raised("pk")
               ELSE Wrote(trades, insert_trades_batch(duck, b))
          ELSE Wrote(InsertOrIgnore(trades, b), duck)}

\* mutant: the writer flushes only a full batch, not on a market's sentinel
ToFlush_OnlyWhenFull(item, b) ==
    IF item.kind = "trade"
    THEN IF Len(Append(b, item)) >= BATCH_SIZE THEN Append(b, item) ELSE << >>
    ELSE IF item.kind = "end" THEN << >> ELSE b

\* mutant: the writer does not flush on the final None
ToFlush_NoFinalFlush(item, b) ==
    IF item.kind = "trade"
    THEN IF Len(Append(b, item)) >= BATCH_SIZE THEN Append(b, item) ELSE << >>
    ELSE IF item.kind = "none" THEN << >> ELSE b

\* what the writer flushes when it takes `item` with batch `b` in hand
ToFlush(item, b) ==
    IF item.kind = "trade"
    THEN IF Len(Append(b, item)) >= BATCH_SIZE THEN Append(b, item) ELSE << >>
    ELSE b

\* the batch left after a successful step on `item`
BatchAfter(item, b) ==
    IF item.kind = "trade" /\ Len(Append(b, item)) < BATCH_SIZE
    THEN Append(b, item) ELSE << >>

\* consumer: item = await queue.get(), the batch append and the flushes
ConsumerGet ==
    /\ Alive
    /\ cpc = "get"
    /\ queue # << >>
    /\ LET item == Head(queue)
       IN  /\ queue' = Tail(queue)
           /\ \E o \in FlushOutcomes(ToFlush(item, batch)) :
                /\ trades' = o.trades
                /\ duck' = o.duck
                /\ IF o.why # "none"
                   THEN /\ cpc' = "failed"
                        /\ batch' = ToFlush(item, batch)
                        /\ hist' = [Dequeued(hist, item) EXCEPT !.wfail = o.why,
                                                 !.clean = @ /\ o.why # "env"]
                        /\ UNCHANGED <<unfinished, cur>>
                   ELSE /\ batch' = BatchAfter(item, batch)
                        /\ hist' = Dequeued(hist, item)
                        /\ CASE item.kind = "trade" ->
                                    /\ cpc' = "get"
                                    /\ unfinished' = unfinished - 1
                                    /\ UNCHANGED cur
                             [] item.kind = "end" ->
                                    /\ cpc' = "mark"
                                    /\ cur' = item
                                    /\ UNCHANGED unfinished
                             [] OTHER ->
                                    /\ cpc' = IF USE_DUCKDB THEN "export" ELSE "done"
                                    /\ unfinished' = unfinished - 1
                                    /\ UNCHANGED cur
    /\ UNCHANGED <<markets, istate, USE_DUCKDB, dataFeed, mpc, selected, sem, prod, result,
                   p1, otherVars, runs>>

duck_mark_winners(table, market_id, outcome) ==
    IF outcome = NULL THEN table ELSE mark_winners(table, market_id, outcome)

\* the winner update of a sentinel, on the store the writer writes to
MarkOutcomes(item) ==
    IF item.outcome = NULL THEN {Wrote(trades, duck)}
    ELSE {Raised("env")} \cup
         {IF USE_DUCKDB
          THEN Wrote(trades, duck_mark_winners(duck, item.market_id, item.outcome))
          ELSE Wrote(mark_winners(trades, item.market_id, item.outcome), duck)}

\* consumer: on a sentinel, after the flush: mark the market's winners
ConsumerMark ==
    /\ Alive
    /\ cpc = "mark"
    /\ \E o \in MarkOutcomes(cur) :
          /\ trades' = o.trades
          /\ duck' = o.duck
          /\ IF o.why # "none"
             THEN /\ cpc' = "failed"
                  /\ hist' = [hist EXCEPT !.wfail = o.why, !.clean = @ /\ o.why # "env"]
             ELSE /\ cpc' = "complete"
                  /\ UNCHANGED hist
    /\ UNCHANGED <<markets, istate, USE_DUCKDB, dataFeed, mpc, selected, queue, unfinished,
                   sem, prod, batch, cur, result, p1, otherVars, runs>>

\* the watermark the writer writes for a sentinel
CompleteState(st, item) == mark_market_trades_complete(st, item.market_id, item.count)

\* consumer: on a sentinel, after the winners: write the completion watermark
ConsumerComplete ==
    /\ Alive
    /\ cpc = "complete"
    /\ \/ /\ istate' = CompleteState(istate, cur)
          /\ unfinished' = unfinished - 1
          /\ cpc' = "get"
          /\ UNCHANGED hist
       \/ /\ cpc' = "failed"
          /\ hist' = [hist EXCEPT !.wfail = "env", !.clean = FALSE]
          /\ UNCHANGED <<istate, unfinished>>
    /\ UNCHANGED <<markets, trades, duck, USE_DUCKDB, dataFeed, mpc, selected, queue, sem,
                   prod, batch, cur, result, p1, otherVars, runs>>

\* consumer (DuckDB): export_to_sqlite after the loop, then close
ConsumerExport ==
    /\ Alive
    /\ cpc = "export"
    /\ \/ /\ ~ExportRaises(trades, duck)
          /\ trades' = export_to_sqlite(trades, duck)
          /\ cpc' = "done"
          /\ UNCHANGED hist
       \/ /\ cpc' = "failed"
          /\ hist' = [hist EXCEPT
                        !.wfail = IF ExportRaises(trades, duck) THEN "pk" ELSE "env",
                        !.clean = @ /\ ExportRaises(trades, duck)]
          /\ UNCHANGED trades
    /\ UNCHANGED <<markets, istate, duck, USE_DUCKDB, dataFeed, mpc, selected, queue,
                   unfinished, sem, prod, batch, cur, result, p1, otherVars, runs>>

(***************************************************************************)
(* ingest_all_trades after the tasks are created.                          *)
(***************************************************************************)
ProducersFinished == \A m \in selected : prod[m].pc \in {"done", "failed"}

\* await asyncio.gather(*producer_tasks)
MainGather ==
    /\ mpc = "gather"
    /\ ProducersFinished
    /\ mpc' = "sentinel"
    /\ UNCHANGED <<markets, trades, istate, duck, USE_DUCKDB, dataFeed, selected, queue,
                   unfinished, sem, prod, cpc, batch, cur, result, p1, otherVars, runs, hist>>

\* await queue.put(None)
MainPutNone ==
    /\ mpc = "sentinel"
    /\ CanPut(queue)
    /\ queue' = Append(queue, NoItem)
    /\ unfinished' = unfinished + 1
    /\ mpc' = "join"
    /\ UNCHANGED <<markets, trades, istate, duck, USE_DUCKDB, dataFeed, selected, sem, prod,
                   cpc, batch, cur, result, p1, otherVars, runs, hist>>

\* await queue.join(); the writer task has then run to its end (it does not
\* await after the last task_done); return db.get_trade_count()
MainJoin ==
    /\ mpc = "join"
    /\ unfinished = 0
    /\ cpc \in {"done", "failed"}
    /\ result' = get_trade_count(trades)
    /\ mpc' = "done"
    /\ UNCHANGED <<markets, trades, istate, duck, USE_DUCKDB, dataFeed, selected, queue,
                   unfinished, sem, prod, cpc, batch, cur, p1, otherVars, runs, hist>>

(***************************************************************************)
(* The process ends (killed while running, or after it returned) and the   *)
(* script is started again: memory is lost, the stores are kept.           *)
(***************************************************************************)
FreshRun ==
    /\ mpc' = "start"
    /\ selected' = {}
    /\ queue' = << >>
    /\ unfinished' = 0
    /\ sem' = CONCURRENCY
    /\ prod' = [m \in MarketIds |-> Idle]
    /\ cpc' = "idle"
    /\ batch' = << >>
    /\ cur' = NoItem
    /\ result' = 0

Interrupt ==
    /\ Alive
    /\ runs < MaxRuns
    /\ runs' = runs + 1
    /\ FreshRun
    /\ hist' = [NoHistory EXCEPT
                  !.interrupted = TRUE,
                  !.clean = hist.clean,
                  !.prevSel = selected,
                  !.prevWm = DOMAIN istate.market_trades]
    /\ UNCHANGED <<markets, trades, istate, duck, USE_DUCKDB, dataFeed, p1, otherVars>>

Rerun ==
    /\ mpc = "done"
    /\ runs < MaxRuns
    /\ runs' = runs + 1
    /\ FreshRun
    /\ hist' = [NoHistory EXCEPT !.clean = hist.clean]
    /\ UNCHANGED <<markets, trades, istate, duck, USE_DUCKDB, dataFeed, p1, otherVars>>

\* the market table Phase 1 leaves for the Gamma feed
AllMarkets == upsert_markets(<< >>, [i \in DOMAIN GammaFeed |-> normalize_market(GammaFeed[i])])

Init ==
    /\ markets = AllMarkets
    /\ trades = {}
    /\ istate = [market_offset |-> <<Len(GammaFeed)>>, market_trades |-> << >>]
    /\ duck = {}
    /\ USE_DUCKDB \in BOOLEAN
    /\ dataFeed \in DataFeeds
    /\ mpc = "start"
    /\ selected = {}
    /\ queue = << >>
    /\ unfinished = 0
    /\ sem = CONCURRENCY
    /\ prod = [m \in MarketIds |-> Idle]
    /\ cpc = "idle"
    /\ batch = << >>
    /\ cur = NoItem
    /\ result = 0
    /\ p1 = [pc |-> "done", full |-> FALSE, offset |-> Len(GammaFeed), page |-> << >>,
              next_offset |-> Len(GammaFeed), total |-> Len(GammaFeed)]
    /\ runs = 1
    /\ hist = NoHistory
    /\ OthersIdle

RunNext ==
    \/ StartRun
    \/ \E m \in MarketIds : ProducerAcquire(m)
    \/ \E m \in MarketIds : ProducerFetch(m)
    \/ \E m \in MarketIds : ProducerFail(m)
    \/ \E m \in MarketIds : ProducerPut(m)
    \/ \E m \in MarketIds : ProducerSentinel(m)
    \/ ConsumerGet
    \/ ConsumerMark
    \/ ConsumerComplete
    \/ ConsumerExport
    \/ MainGather
    \/ MainPutNone
    \/ MainJoin

Next == RunNext \/ Interrupt \/ Rerun

Spec == Init /\ [][Next]_vars

\* asyncio runs every task that can run: no ready task waits forever
FairSpec == Spec /\ WF_vars(RunNext)

(***************************************************************************)
(* Properties of Phase 2.                                                  *)
(***************************************************************************)
\* the store the writer task writes the trades to
WriterStore == IF USE_DUCKDB THEN duck ELSE trades

Watermarked == DOMAIN istate.market_trades

Resolved == {m \in DOMAIN markets : markets[m].outcome # NULL}

\* ids of all trades the Data API serves for market m
FeedIds(m) ==
    IF markets[m].condition_id = NULL THEN {}
    ELSE {make_trade_id(t) : t \in Range(dataFeed[markets[m].condition_id])}

\* C2: whenever a market's completion watermark exists, every trade its fetcher
\* enqueued (in this run) is already committed to the store the writer writes
\* to: the flush comes before the watermark.
C2_WatermarkAfterCommit ==
    \A m \in MarketIds :
        HasWatermark(istate, m) => hist.enq[m] \subseteq Ids(WriterStore)

\* C2 witness: a run wrote the watermark of the three-trade market while the
\* process is still running
C2_Witness ==
    /\ Alive
    /\ HasWatermark(istate, "m1")
    /\ Cardinality(hist.enq["m1"]) >= 2
    /\ prod["m2"].pc \in {"wait", "fetch", "put"}

\* ids of the trade items in a sequence of queue items
TradeIdsIn(items) == {items[i].id : i \in {j \in DOMAIN items : items[j].kind = "trade"}}

C10_Bounded == Len(queue) <= QUEUE_MAX

C10_NothingDropped ==
    \A m \in MarketIds :
        hist.enq[m] \subseteq TradeIdsIn(queue) \cup TradeIdsIn(batch) \cup Ids(WriterStore)

\* a step from a full queue never adds an item: a put waits for a get
C10_FullQueueBlocks ==
    Len(queue) = QUEUE_MAX => (queue' = queue \/ queue' = Tail(queue) \/ queue' = << >>)

\* C10: the queue never holds more than QUEUE_MAX items; while it is full no
\* put completes until the writer has taken an item; and every trade a fetcher
\* enqueued is still in the queue, in the writer's batch or in the store.
C10_Backpressure ==
    /\ [](C10_Bounded /\ C10_NothingDropped)
    /\ [][C10_FullQueueBlocks]_vars

\* C10 witness: the queue is full while a fetcher has a trade to put and
\* another trade is already stored
C10_Witness ==
    /\ Len(queue) = QUEUE_MAX
    /\ \E m \in MarketIds : prod[m].pc = "put"
    /\ WriterStore # {}

\* every trade any fetcher enqueued in this run is in the SQLite store
AllEnqueuedStored == \A m \in MarketIds : hist.enq[m] \subseteq Ids(trades)

C6_FinalFlush ==
    (mpc = "done" /\ hist.wfail = "none") =>
        (queue = << >> /\ batch = << >> /\ unfinished = 0 /\ AllEnqueuedStored)

\* C6: a run in which no store write fails returns (fetchers end by success or
\* by failure), and when it has returned the queue and the batch are empty and
\* every enqueued trade is stored.
C6_Termination ==
    /\ []C6_FinalFlush
    /\ (Alive ~> (mpc = "done" \/ hist.wfail # "none" \/ mpc = "start"))

\* C6 witness: a run returned after a fetcher failed and another enqueued all
\* three trades of its market, all stored
C6_Witness ==
    /\ mpc = "done"
    /\ hist.wfail = "none"
    /\ \E m \in selected : prod[m].pc = "failed"
    /\ Cardinality(hist.enq["m1"]) = 3
    /\ AllEnqueuedStored

\* the run can take no step of its own although it has not returned
Stuck == Alive /\ ~ENABLED RunNext

\* C1: a run that follows an interrupted run (no fetcher and no store having
\* failed) selects exactly the markets the interrupted run had selected and
\* not yet watermarked, and once it has returned the store holds every trade
\* of the markets the interrupted run had selected, as after an uninterrupted
\* run.
C1_Resumability ==
    (hist.interrupted /\ hist.clean) =>
        /\ mpc # "start" => selected = hist.prevSel \ hist.prevWm
        /\ mpc = "done" => \A m \in hist.prevSel : FeedIds(m) \subseteq Ids(trades)

\* C3: handing the writer a record whose id it was already handed (a repeated
\* page, a later run) raises nothing and leaves one row per id in the store
\* it writes to, for SQLite and for DuckDB.
C3_IdempotentIngestion ==
    /\ hist.wfail # "pk"
    /\ Cardinality(Ids(trades)) = Cardinality(trades)
    /\ Cardinality(Ids(duck)) = Cardinality(duck)

\* C4: when Phase 2 starts, get_markets_without_trades returns exactly the
\* resolved markets without a completion watermark, with or without stored
\* trades.
C4_SelectsUnwatermarked ==
    mpc = "start" =>
        get_markets_without_trades(markets, trades, istate) = Resolved \ Watermarked

\* C5: in a run where a fetcher raised (and the store itself did not fail), the
\* failed market gets no watermark, the run does not hang, and when it has
\* returned every market whose fetcher succeeded has its watermark and all its
\* trades stored.
C5_FailureIsolation ==
    ((\E m \in selected : prod[m].pc = "failed") /\ hist.wfail # "env") =>
        /\ \A m \in selected : prod[m].pc = "failed" => ~HasWatermark(istate, m)
        /\ ~Stuck
        /\ mpc = "done" =>
              \A m \in selected :
                  (prod[m].pc = "done" /\ markets[m].condition_id # NULL) =>
                      (HasWatermark(istate, m) /\ FeedIds(m) \subseteq Ids(trades))

\* C7: after a store write of the writer raised, the run does not wait forever,
\* and every watermark present belongs to a market whose enqueued trades are
\* all committed.
C7_WriteFailureAborts ==
    hist.wfail # "none" =>
        /\ ~Stuck
        /\ C2_WatermarkAfterCommit

\* C8: when a run has returned, a stored trade has a winner flag exactly if its
\* market has an outcome, and the flag is (outcome_index = winning index).
C8_WinnerInvariant ==
    mpc = "done" =>
        \A t \in trades :
            /\ (t.is_winner # NULL) <=> (markets[t.market_id].outcome # NULL)
            /\ t.is_winner # NULL =>
                  t.is_winner = SqlBool(t.outcome_index =
                                        WinningIndex(markets[t.market_id].outcome))

\* ids of the records of market m's feed that normalize_trade accepts
WellFormedIds(m) ==
    IF markets[m].condition_id = NULL THEN {}
    ELSE {make_trade_id(t) : t \in {r \in Range(dataFeed[markets[m].condition_id]) :
                                       ~normalize_trade_raises(r)}}

\* C15: in a first run in which no page request and no store write fails, a
\* malformed trade record is skipped: once the run has returned, every
\* selected market has its completion watermark and every well-formed record
\* of its feed is stored.
C15_MalformedSkipped ==
    (mpc = "done" /\ runs = 1 /\ hist.wfail = "none" /\ hist.reqfail = {}) =>
        \A m \in selected :
            markets[m].condition_id # NULL =>
                (HasWatermark(istate, m) /\ WellFormedIds(m) \subseteq Ids(trades))

(***************************************************************************)
(* Phase 2 with more fetchers than semaphore slots: the Gamma feed after   *)
(* m3 resolved as well, one trade per market.                              *)
(***************************************************************************)
GammaFeedLater ==
    [i \in DOMAIN GammaFeed |->
        IF GammaFeed[i].id = "m3"
        THEN [GammaFeed[i] EXCEPT !.outcomePrices = JsonPrices(<<"0", "1">>)]
        ELSE GammaFeed[i]]

DataFeedLater ==
    [c \in ConditionIds |->
        CASE c = "c1" -> <<RawTrade("a", c, 0)>>
          [] c = "c2" -> <<RawTrade("d", c, 1)>>
          [] c = "c3" -> <<RawTrade("e", c, 0)>>
          [] OTHER    -> << >>]

InitFetchers ==
    /\ markets = upsert_markets(<< >>, [i \in DOMAIN GammaFeedLater |->
                                          normalize_market(GammaFeedLater[i])])
    /\ trades = {}
    /\ istate = [market_offset |-> <<Len(GammaFeed)>>, market_trades |-> << >>]
    /\ duck = {}
    /\ USE_DUCKDB \in BOOLEAN
    /\ dataFeed = DataFeedLater
    /\ mpc = "start"
    /\ selected = {}
    /\ queue = << >>
    /\ unfinished = 0
    /\ sem = CONCURRENCY
    /\ prod = [m \in MarketIds |-> Idle]
    /\ cpc = "idle"
    /\ batch = << >>
    /\ cur = NoItem
    /\ result = 0
    /\ p1 = [pc |-> "done", full |-> FALSE, offset |-> Len(GammaFeed), page |-> << >>,
              next_offset |-> Len(GammaFeed), total |-> Len(GammaFeed)]
    /\ runs = 1
    /\ hist = NoHistory
    /\ OthersIdle

SpecFetchers == InitFetchers /\ [][Next]_vars

FairSpecFetchers == SpecFetchers /\ WF_vars(RunNext)

\* the fetchers inside their fetch section, holding a slot of the semaphore
Holding == {m \in MarketIds : prod[m].pc \in {"fetch", "put", "sentinel"}}

C11_AtMostConcurrency ==
    /\ Cardinality(Holding) <= CONCURRENCY
    /\ sem = CONCURRENCY - Cardinality(Holding)

\* a fetcher that ended, by success or by failure, holds no slot
C11_Released ==
    \A m \in MarketIds : prod[m].pc \in {"done", "failed"} => m \notin Holding

C11_EveryFetcherRuns ==
    \A m \in MarketIds : (prod[m].pc = "wait") ~> (prod[m].pc # "wait")

\* C11: at most CONCURRENCY fetchers hold the semaphore at any time, a fetcher
\* that completed or failed has released its slot, and every fetcher waiting
\* for a slot eventually gets one (or the process is killed).
C11_BoundedConcurrency ==
    /\ [](C11_AtMostConcurrency /\ C11_Released)
    /\ C11_EveryFetcherRuns

(***************************************************************************)
(* Phase 1: ingest_markets over the Gamma feed.                            *)
(***************************************************************************)
\* the Gamma API: a page of at most `limit` markets from `offset`
fetch_markets_page(offset, limit) ==
    SubSeq(GammaFeed, offset + 1, Min(offset + limit, Len(GammaFeed)))

\* mutant: the offset runs ahead of the page that was fetched
NextOffset_Ahead(offset, page) == offset + Len(page) + 1

\* iter_all_markets: the offset yielded with a page
NextOffset(offset, page) == offset + Len(page)

\* ingest_markets: the offset the run starts from
StartOffset(full, st) ==
    IF ~full /\ st.market_offset # << >> THEN st.market_offset[1] ELSE 0

\* set_ingestion_state("market_offset", str(next_offset))
set_market_offset(st, next_offset) == [st EXCEPT !.market_offset = <<next_offset>>]

P1Fresh ==
    [pc |-> "start", full |-> FALSE, offset |-> 0, page |-> << >>,
     next_offset |-> 0, total |-> 0]

P1Frame ==
    UNCHANGED <<trades, duck, USE_DUCKDB, dataFeed, mpc, selected, queue, unfinished,
                sem, prod, cpc, batch, cur, result, hist, otherVars>>

\* ingest_markets up to the first page request; --full is the caller's choice
P1Start ==
    /\ p1.pc = "start"
    /\ \E full \in BOOLEAN :
          p1' = [p1 EXCEPT !.pc = "fetch", !.full = full,
                           !.offset = StartOffset(full, istate), !.total = 0]
    /\ UNCHANGED <<markets, istate, runs>>
    /\ P1Frame

\* iter_all_markets: one page request; an empty page ends the iteration
P1Fetch ==
    /\ p1.pc = "fetch"
    /\ LET page == fetch_markets_page(p1.offset, GAMMA_PAGE_SIZE)
       IN  IF page = << >>
           THEN p1' = [p1 EXCEPT !.pc = "done", !.page = << >>]
           ELSE p1' = [p1 EXCEPT !.pc = "upsert", !.page = page,
                                 !.next_offset = NextOffset(p1.offset, page)]
    /\ UNCHANGED <<markets, istate, runs>>
    /\ P1Frame

\* the page request raises: ingest_markets does not catch it, the script ends
P1FetchRaises ==
    /\ p1.pc = "fetch"
    /\ p1' = [p1 EXCEPT !.pc = "raised"]
    /\ UNCHANGED <<markets, istate, runs>>
    /\ P1Frame

\* db.upsert_markets(normalized)
P1Upsert ==
    /\ p1.pc = "upsert"
    /\ markets' = upsert_markets(markets,
                     [i \in DOMAIN p1.page |-> normalize_market(p1.page[i])])
    /\ p1' = [p1 EXCEPT !.pc = "setstate"]
    /\ UNCHANGED <<istate, runs>>
    /\ P1Frame

\* db.set_ingestion_state("market_offset", ...), the total, and the generator's
\* short-page test
P1SetState ==
    /\ p1.pc = "setstate"
    /\ istate' = set_market_offset(istate, p1.next_offset)
    /\ p1' = [p1 EXCEPT
                !.total = @ + Len(p1.page),
                !.offset = p1.next_offset,
                !.pc = IF Len(p1.page) < GAMMA_PAGE_SIZE THEN "done" ELSE "fetch"]
    /\ UNCHANGED <<markets, runs>>
    /\ P1Frame

\* the process is killed while ingest_markets runs, and the script is started again
P1Interrupt ==
    /\ p1.pc \in {"fetch", "upsert", "setstate"}
    /\ runs < MaxMarketRuns
    /\ runs' = runs + 1
    /\ p1' = P1Fresh
    /\ UNCHANGED <<markets, istate>>
    /\ P1Frame

\* the script is started again after it ended
P1Rerun ==
    /\ p1.pc \in {"done", "raised"}
    /\ runs < MaxMarketRuns
    /\ runs' = runs + 1
    /\ p1' = P1Fresh
    /\ UNCHANGED <<markets, istate>>
    /\ P1Frame

InitMarkets ==
    /\ markets = << >>
    /\ trades = {}
    /\ istate = [market_offset |-> << >>, market_trades |-> << >>]
    /\ duck = {}
    /\ USE_DUCKDB = FALSE
    /\ dataFeed = [c \in ConditionIds |-> << >>]
    /\ mpc = "start"
    /\ selected = {}
    /\ queue = << >>
    /\ unfinished = 0
    /\ sem = CONCURRENCY
    /\ prod = [m \in MarketIds |-> Idle]
    /\ cpc = "idle"
    /\ batch = << >>
    /\ cur = NoItem
    /\ result = 0
    /\ p1 = P1Fresh
    /\ runs = 1
    /\ hist = NoHistory
    /\ OthersIdle

NextMarkets ==
    \/ P1Start
    \/ P1Fetch
    \/ P1FetchRaises
    \/ P1Upsert
    \/ P1SetState
    \/ P1Interrupt
    \/ P1Rerun

SpecMarkets == InitMarkets /\ [][NextMarkets]_vars

(***************************************************************************)
(* Properties of Phase 1.                                                  *)
(***************************************************************************)
\* the number of leading feed records whose market is in the table
UpsertedPrefix ==
    LET ok(k) == \A i \in 1..k : GammaFeed[i].id \in DOMAIN markets
    IN  CHOOSE k \in 0..Len(GammaFeed) :
            ok(k) /\ \A j \in 0..Len(GammaFeed) : ok(j) => j <= k

C9_OffsetBehindUpserts ==
    istate.market_offset # << >> => istate.market_offset[1] <= UpsertedPrefix

C9_SameTable == p1.pc = "done" => markets = AllMarkets

\* C9: the persisted market offset never exceeds the number of feed records
\* already upserted, and a run of ingest_markets that ends, after any number
\* of interruptions, leaves the market table of an uninterrupted run: every
\* feed market once, under its id.
C9_OffsetWatermark == C9_OffsetBehindUpserts /\ C9_SameTable

\* C9 witness: a run resumed from a saved offset ended after fetching only the
\* rest of the feed
C9_Witness ==
    /\ p1.pc = "done"
    /\ ~p1.full
    /\ runs >= 2
    /\ p1.total > 0
    /\ p1.total < Len(GammaFeed)
    /\ markets = AllMarkets

(***************************************************************************)
(* main: Phase 1 and then Phase 2 in one process, started with or without  *)
(* --full, killed and started again.                                       *)
(***************************************************************************)
\* the process is killed in either phase, and the script is started again
MainInterrupt ==
    /\ p1.pc \in {"fetch", "upsert", "setstate"} \/ Alive
    /\ runs < MaxRuns
    /\ runs' = runs + 1
    /\ p1' = P1Fresh
    /\ FreshRun
    /\ hist' = [NoHistory EXCEPT
                  !.interrupted = TRUE,
                  !.clean = hist.clean,
                  !.prevSel = selected,
                  !.prevWm = DOMAIN istate.market_trades]
    /\ UNCHANGED <<markets, trades, istate, duck, USE_DUCKDB, dataFeed, otherVars>>

\* the script is started again after it ended (Phase 2 returned, or Phase 1
\* raised)
MainRerun ==
    /\ mpc = "done" \/ p1.pc = "raised"
    /\ runs < MaxRuns
    /\ runs' = runs + 1
    /\ p1' = P1Fresh
    /\ FreshRun
    /\ hist' = [NoHistory EXCEPT !.clean = hist.clean]
    /\ UNCHANGED <<markets, trades, istate, duck, USE_DUCKDB, dataFeed, otherVars>>

\* an empty database, the script not yet started
InitMain ==
    /\ markets = << >>
    /\ trades = {}
    /\ istate = [market_offset |-> << >>, market_trades |-> << >>]
    /\ duck = {}
    /\ USE_DUCKDB \in BOOLEAN
    /\ dataFeed = DataFeedLater
    /\ mpc = "start"
    /\ selected = {}
    /\ queue = << >>
    /\ unfinished = 0
    /\ sem = CONCURRENCY
    /\ prod = [m \in MarketIds |-> Idle]
    /\ cpc = "idle"
    /\ batch = << >>
    /\ cur = NoItem
    /\ result = 0
    /\ p1 = P1Fresh
    /\ runs = 1
    /\ hist = NoHistory
    /\ OthersIdle

NextMain ==
    \/ P1Start
    \/ P1Fetch
    \/ P1FetchRaises
    \/ P1Upsert
    \/ P1SetState
    \/ RunNext
    \/ MainInterrupt
    \/ MainRerun

SpecMain == InitMain /\ [][NextMain]_vars

\* C17: in a run started with --full, market pagination starts at offset 0
\* and Phase 2 selects every resolved market, watermarked or not.
C17_FullReingestion ==
    p1.full =>
        /\ (p1.pc = "fetch" /\ p1.total = 0) => p1.offset = 0
        /\ (p1.pc = "done" /\ mpc # "start") => selected = Resolved

(***************************************************************************)
(* RateLimiter: sliding-window limiter of the HTTP client.  Callers are    *)
(* coroutines of one event loop: a turn of the loop in acquire (read the   *)
(* clock, purge, test, append or compute the sleep) runs without           *)
(* suspension.                                                              *)
(***************************************************************************)
LimiterFrame == UNCHANGED <<ingestVars, monitorVars, retryVars, fingerprintVars, clusterVars, statsVars>>

\* mutant: timestamps leave the window one tick early
Purge_Early(ts, t) == SelectSeq(ts, LAMBDA x : t - x < Window - 1)

\* acquire: the timestamps still inside the window at time t
Purge(ts, t) == SelectSeq(ts, LAMBDA x : t - x < Window)

\* acquire: sleep_for, computed on the purged list
SleepFor(ts, t) == Window - (t - ts[1]) + SleepSlack

\* a coroutine calls acquire
AcquireCall(c) ==
    /\ acq[c].pc = "idle"
    /\ acq' = [acq EXCEPT ![c].pc = "loop"]
    /\ UNCHANGED <<timestamps, now, granted>>
    /\ LimiterFrame

\* one turn of acquire's loop
AcquireLoop(c) ==
    /\ acq[c].pc = "loop"
    /\ LET ts == Purge(timestamps, now)
       IN  IF Len(ts) < MaxRequests
           THEN /\ timestamps' = Append(ts, now)
                /\ acq' = [acq EXCEPT ![c].pc = "returned"]
                /\ granted' = Append(granted, now)
           ELSE /\ timestamps' = ts
                /\ acq' = [acq EXCEPT ![c].pc = "sleep",
                                      ![c].wake = now + SleepFor(ts, now)]
                /\ UNCHANGED granted
    /\ UNCHANGED now
    /\ LimiterFrame

\* asyncio.sleep(sleep_for) is over: not before the delay has passed
AcquireWake(c) ==
    /\ acq[c].pc = "sleep"
    /\ now >= acq[c].wake
    /\ acq' = [acq EXCEPT ![c].pc = "loop"]
    /\ UNCHANGED <<timestamps, now, granted>>
    /\ LimiterFrame

\* the monotonic clock advances
Tick ==
    /\ now < MaxTime
    /\ now' = now + 1
    /\ UNCHANGED <<timestamps, acq, granted>>
    /\ LimiterFrame

\* the ingestion pipeline at rest, as after a completed Phase 1; the trades
\* table apart
IngestRest ==
    /\ markets = AllMarkets
    /\ istate = [market_offset |-> <<Len(GammaFeed)>>, market_trades |-> << >>]
    /\ duck = {}
    /\ USE_DUCKDB = FALSE
    /\ dataFeed = [c \in ConditionIds |-> << >>]
    /\ mpc = "start"
    /\ selected = {}
    /\ queue = << >>
    /\ unfinished = 0
    /\ sem = CONCURRENCY
    /\ prod = [m \in MarketIds |-> Idle]
    /\ cpc = "idle"
    /\ batch = << >>
    /\ cur = NoItem
    /\ result = 0
    /\ p1 = [pc |-> "done", full |-> FALSE, offset |-> Len(GammaFeed), page |-> << >>,
              next_offset |-> Len(GammaFeed), total |-> Len(GammaFeed)]
    /\ runs = 1
    /\ hist = NoHistory

IngestIdle == trades = {} /\ IngestRest

InitLimiter == IngestIdle /\ OthersIdle

NextLimiter ==
    \/ \E c \in Callers : AcquireCall(c)
    \/ \E c \in Callers : AcquireLoop(c)
    \/ \E c \in Callers : AcquireWake(c)
    \/ Tick

SpecLimiter == InitLimiter /\ [][NextLimiter]_vars

\* the acquire calls that returned in the interval (t - Window, t]
GrantedWithin(t) == {j \in DOMAIN granted : t - Window < granted[j] /\ granted[j] <= t}

\* C12: with any number of concurrent callers, no interval of length Window
\* holds more than MaxRequests returns of acquire (an interval with the most
\* returns can be taken to end at a return).
C12_RateLimiterBound ==
    \A i \in DOMAIN granted : Cardinality(GrantedWithin(granted[i])) <= MaxRequests

\* C12 witness: 2 * MaxRequests callers called together, all have returned,
\* some after sleeping
C12_Witness ==
    /\ \A c \in Callers : acq[c].pc = "returned"
    /\ \E c \in Callers : acq[c].wake > 0
    /\ Len(granted) >= 2 * MaxRequests

(***************************************************************************)
(* PolymarketClient._request_with_retry: one call.  The remote end decides *)
(* how each attempt ends.                                                  *)
(***************************************************************************)
MAX_RETRIES == 5
RETRY_BACKOFF_BASE == 1
MaxRetryAfter == 20

\* how an attempt can end: a response below 400, a 4xx other than 429, a
\* 429, a 5xx, httpx.TimeoutException, httpx.ConnectError, another exception
Outcomes == {"ok", "s404", "s429", "s500", "timeout", "connect", "other"}

Retryable == {"s429", "s500", "timeout", "connect"}

RECURSIVE Pow2(_)
Pow2(n) == IF n = 0 THEN 1 ELSE 2 * Pow2(n - 1)

Max(a, b) == IF a > b THEN a ELSE b

\* the wait after a 429
Wait429(retry_after, attempt) == Max(retry_after, RETRY_BACKOFF_BASE * Pow2(attempt))

\* the wait after a 5xx or a timeout / connect error; jitter is random.uniform(0, 1)
WaitBackoff(attempt, jitter) == RETRY_BACKOFF_BASE * Pow2(attempt) + jitter

\* the response of the n-th attempt, returned to the caller
Response(n) == [kind |-> "response", what |-> "ok", attempt |-> n]

\* an exception raised to the caller
Raise(e) == [kind |-> "exception", what |-> e, attempt |-> 0]

RetryFrame == UNCHANGED <<ingestVars, monitorVars, limiterVars, fingerprintVars, clusterVars, statsVars>>

RequestCall ==
    /\ req.pc = "idle"
    /\ req' = [req EXCEPT !.pc = "attempt"]
    /\ UNCHANGED seen
    /\ RetryFrame

\* mutant: the loop makes one attempt more
HasAttempt_OneMore(attempt) == attempt < MAX_RETRIES + 1

\* for attempt in range(MAX_RETRIES)
HasAttempt(attempt) == attempt < MAX_RETRIES

\* one turn of the loop: the request and what follows from how it ended
RequestAttempt ==
    /\ req.pc = "attempt"
    /\ HasAttempt(req.attempt)
    /\ \E o \in Outcomes, retry_after \in {0, MaxRetryAfter}, jitter \in {0, 1} :
          /\ seen' = Append(seen, o)
          /\ CASE o = "s429" ->
                     /\ jitter = 0
                     /\ req' = [req EXCEPT !.wait = Wait429(retry_after, req.attempt),
                                           !.attempt = @ + 1]
               [] o = "s500" ->
                     /\ retry_after = 0
                     /\ req' = [req EXCEPT !.wait = WaitBackoff(req.attempt, jitter),
                                           !.attempt = @ + 1]
               [] o \in {"timeout", "connect"} ->
                     /\ retry_after = 0
                     /\ req' = [req EXCEPT !.last_exc = o,
                                           !.wait = WaitBackoff(req.attempt, jitter),
                                           !.attempt = @ + 1]
               [] o = "ok" ->
                     /\ retry_after = 0 /\ jitter = 0
                     /\ req' = [req EXCEPT !.pc = "returned",
                                           !.result = Response(Len(seen) + 1)]
               [] o = "s404" ->
                     /\ retry_after = 0 /\ jitter = 0
                     /\ req' = [req EXCEPT !.pc = "raised", !.result = Raise("HTTPStatusError")]
               [] OTHER ->
                     /\ retry_after = 0 /\ jitter = 0
                     /\ req' = [req EXCEPT !.pc = "raised", !.result = Raise(o)]
    /\ RetryFrame

\* the loop is over: raise last_exc or RuntimeError
RequestExhausted ==
    /\ req.pc = "attempt"
    /\ ~HasAttempt(req.attempt)
    /\ req' = [req EXCEPT !.pc = "raised",
                          !.result = IF req.last_exc # NULL THEN Raise(req.last_exc)
                                     ELSE Raise("RuntimeError")]
    /\ UNCHANGED seen
    /\ RetryFrame

InitRetry == IngestIdle /\ OthersIdle

NextRetry == RequestCall \/ RequestAttempt \/ RequestExhausted

SpecRetry == InitRetry /\ [][NextRetry]_vars

\* the loop is not suspended forever: every sleep and every request end
FairSpecRetry == SpecRetry /\ WF_vars(NextRetry)

LastSeen == seen[Len(seen)]

OnlySeen(kinds) == \A i \in DOMAIN seen : seen[i] \in kinds

\* C13: 429 responses do not use up the retry budget: after any number of
\* consecutive 429 responses the call still makes its next attempt (so that a
\* success that follows is returned), and a call that met nothing but 429
\* responses has not raised.
C13_429NeverFails ==
    OnlySeen({"s429"}) =>
        /\ req.pc # "raised"
        /\ req.pc = "attempt" => ENABLED RequestAttempt

C14_Budget ==
    /\ Len(seen) <= MAX_RETRIES
    /\ \A i \in DOMAIN seen : i < Len(seen) => seen[i] \in Retryable
    /\ (seen # << >> /\ LastSeen = "ok") =>
           (req.pc = "returned" /\ req.result = Response(Len(seen)))
    /\ (seen # << >> /\ LastSeen \in {"s404", "other"}) => req.pc = "raised"
    /\ req.pc = "returned" => (seen # << >> /\ LastSeen = "ok")
    /\ (Len(seen) = MAX_RETRIES /\ OnlySeen(Retryable)) =>
           (req.pc \in {"attempt", "raised"} /\ ~ENABLED RequestAttempt)

FullPayloads ==
    {[transactionHash |-> tx, conditionId |-> "c1", outcomeIndex |-> oi, timestamp |-> "1",
      proxyWallet |-> w, size |-> sz, price |-> pr, side |-> "BUY"] :
        tx \in {"a", "b"}, oi \in {0, 1}, w \in {"w", ""}, sz \in {"1", "2"},
        pr \in {"0.5", "0.9"}}

Without(payload, key) == [k \in DOMAIN payload \ {key} |-> payload[k]]

\* payloads with all keys, and payloads that lack the proxyWallet key
Payloads ==
    FullPayloads \cup {Without(p, "proxyWallet") : p \in {q \in FullPayloads : q.proxyWallet = "w"}}

FingerprintFrame == UNCHANGED <<ingestVars, monitorVars, limiterVars, retryVars, clusterVars, statsVars>>

\* normalize_trade is applied to payload i, for some market
NormalizeTrade(i) ==
    /\ norm[i] = << >>
    /\ \E m \in {"m1", "m2"} : norm' = [norm EXCEPT ![i] = <<normalize_trade(pay[i], m)>>]
    /\ UNCHANGED pay
    /\ FingerprintFrame

InitFingerprint ==
    /\ IngestIdle /\ MonitorIdle /\ LimiterIdle /\ RetryIdle /\ ClusterIdle /\ StatsIdle
    /\ pay \in Payloads \X Payloads
    /\ norm = << << >>, << >> >>

NextFingerprint == \E i \in {1, 2} : NormalizeTrade(i)

SpecFingerprint == InitFingerprint /\ [][NextFingerprint]_vars

\* two payloads agree on a key: both lack it, or both have it with one value
AgreeOn(p, q, key) ==
    /\ (key \in DOMAIN p) <=> (key \in DOMAIN q)
    /\ key \in DOMAIN p => p[key] = q[key]

AgreeOnFingerprintKeys(p, q) == \A i \in DOMAIN FingerprintKeys : AgreeOn(p, q, FingerprintKeys[i])

\* C16: the id normalize_trade assigns is make_trade_id of the payload, and
\* two payloads that agree on the six fingerprint fields get the same id,
\* whatever their other fields, their market and the order of processing.
C16_FingerprintDeterminism ==
    /\ \A i \in DOMAIN norm : norm[i] # << >> => norm[i][1].id = make_trade_id(pay[i])
    /\ (norm # << >> /\ norm[1] # << >> /\ norm[2] # << >>
           /\ AgreeOnFingerprintKeys(pay[1], pay[2])) => norm[1][1].id = norm[2][1].id

\* C16 witness: two payloads that agree on the six fields and differ in the
\* price were normalized for different markets and got one id
C16_Witness ==
    /\ norm # << >> /\ norm[1] # << >> /\ norm[2] # << >>
    /\ AgreeOnFingerprintKeys(pay[1], pay[2])
    /\ pay[1].price # pay[2].price
    /\ norm[1][1].market_id # norm[2][1].market_id
    /\ norm[1][1].id = norm[2][1].id

(***************************************************************************)
(* ClusterDetector (src/analysis/cluster_detector.py).  The thresholds     *)
(* keep the values of the source: the scenarios below are at the scale at  *)
(* which they bite.  Confidence is counted in hundredths of a point.       *)
(***************************************************************************)
TEMPORAL_WINDOW_SECONDS == 300
MIN_EDGE_WEIGHT == 50
MIN_CLUSTER_SIZE == 3
MIN_DEGREE == 15
MIN_CLUSTER_CONFIDENCE == 3500

\* the largest number of wallets of a scenario
MaxWallets == 5

\* numbers of markets every wallet of a scenario trades
MarketCounts == {10, 49, 50, 60}

\* seconds between the trades of consecutive wallets on one market
Gaps == {0, 60, 100, 301}

\* the trades table of a scenario: n wallets each trade the same k markets,
\* gap seconds after one another, on one outcome index or on alternating ones
CoTrades(n, k, gap, sameSide) ==
    { [id |-> <<m, w>>, market_id |-> m, wallet_address |-> w,
       timestamp |-> 1000 * m + gap * (w - 1),
       outcome_index |-> IF sameSide THEN 0 ELSE w % 2] : m \in 1..k, w \in 1..n }

\* the insider scores are the scorer's to write: ClusterDetector reads them
ClusterFrame ==
    UNCHANGED <<ingestVars, monitorVars, limiterVars, retryVars, fingerprintVars, statsVars, insider_score>>

\* Database.get_trades_for_market
TradesOf(m) == {t \in trades : t.market_id = m}

\* build_temporal_graph: SELECT market_id ... HAVING wallet_count >= 2
MultiWalletMarkets ==
    {m \in {t.market_id : t \in trades} :
        Cardinality({t.wallet_address : t \in TradesOf(m)}) >= 2}

PairWallets(p) == {t.wallet_address : t \in p}

SameSide(p) == Cardinality({t.outcome_index : t \in p}) = 1

NoEdge == [weight |-> 0, same_side_count |-> 0]

EdgeData(g, e) == IF e \in DOMAIN g.edges THEN g.edges[e] ELSE NoEdge

\* sorted(trades, key=timestamp) over the rows of "ORDER BY timestamp": the
\* lists in which the timestamps never fall; rows of one timestamp come in
\* whatever order the store returned them
RECURSIVE SortedByTimestamp(_)
SortedByTimestamp(ts) ==
    IF ts = {} THEN {<< >>}
    ELSE UNION {{<<x>> \o s : s \in SortedByTimestamp(ts \ {x})} :
                    x \in {y \in ts : \A z \in ts : y.timestamp <= z.timestamp}}

Breaks_AtWindow(t1, t2) == t2.timestamp - t1.timestamp >= TEMPORAL_WINDOW_SECONDS

\* _find_temporal_pairs: "if delta > TEMPORAL_WINDOW_SECONDS: break"
Breaks(t1, t2) == t2.timestamp - t1.timestamp > TEMPORAL_WINDOW_SECONDS

\* _find_temporal_pairs: the index at which the inner loop for
\* t1 = sorted_trades[i] ends: the first j past i at which it breaks, or
\* the end of the list
InnerStop(sorted_trades, i) ==
    LET breaking == {j \in (i + 1)..Len(sorted_trades) :
                        Breaks(sorted_trades[i], sorted_trades[j])}
    IN  IF breaking = {} THEN Len(sorted_trades) + 1
        ELSE CHOOSE j \in breaking : \A k \in breaking : j <= k

\* _find_temporal_pairs: the index pairs (i, j) at which the two loops get
\* past the break and the continue
Reached(sorted_trades) ==
    {p \in (DOMAIN sorted_trades) \X (DOMAIN sorted_trades) :
        /\ p[1] < p[2]
        /\ p[2] < InnerStop(sorted_trades, p[1])
        /\ sorted_trades[p[1]].wallet_address # sorted_trades[p[2]].wallet_address}

\* _find_temporal_pairs: the body of the inner loop past break and
\* continue, for the index pairs reached: each adds 1 to the weight of its
\* wallets' edge, and 1 to same_side_count when same_side
AddPairs(g, sorted_trades, reached) ==
    LET w1(p) == sorted_trades[p[1]].wallet_address
        w2(p) == sorted_trades[p[2]].wallet_address
        same_side(p) == sorted_trades[p[1]].outcome_index = sorted_trades[p[2]].outcome_index
        es == {{w1(p), w2(p)} : p \in reached}
    IN  [nodes |-> g.nodes \cup UNION es,
         edges |-> [e \in es |->
            [weight |-> EdgeData(g, e).weight
                          + Cardinality({p \in reached : {w1(p), w2(p)} = e}),
             same_side_count |-> EdgeData(g, e).same_side_count
                          + Cardinality({p \in reached : {w1(p), w2(p)} = e /\ same_side(p)})]]
                   @@ g.edges]

\* _find_temporal_pairs: the graph after the scan of one market's trades
find_temporal_pairs(g, sorted_trades) == AddPairs(g, sorted_trades, Reached(sorted_trades))

Degree(g, n) == Cardinality({e \in DOMAIN g.edges : n \in e})

remove_nodes_from(g, ns) ==
    [nodes |-> g.nodes \ ns,
     edges |-> [e \in {x \in DOMAIN g.edges : x \cap ns = {}} |-> g.edges[e]]]

WeakEdges_None(g) == {}

\* build_temporal_graph: "Prune weak edges"
WeakEdges(g) == {e \in DOMAIN g.edges : g.edges[e].weight < MIN_EDGE_WEIGHT}

remove_edges_from(g, es) ==
    [nodes |-> g.nodes, edges |-> [e \in DOMAIN g.edges \ es |-> g.edges[e]]]

\* nx.isolates
Isolates(g) == {n \in g.nodes : Degree(g, n) = 0}

\* build_temporal_graph: low_degree_nodes, computed once
LowDegreeNodes(g) == {n \in g.nodes : Degree(g, n) < MIN_DEGREE}

RECURSIVE SumOver(_, _)
SumOver(f, S) ==
    IF S = {} THEN 0
    ELSE LET x == CHOOSE y \in S : TRUE IN f[x] + SumOver(f, S \ {x})

\* louvain_communities returns a partition of the nodes; which one is left
\* open
RECURSIVE Partitions(_)
Partitions(S) ==
    IF S = {} THEN {{}}
    ELSE LET x == CHOOSE y \in S : TRUE
         IN  UNION {{P \cup {{x}}} \cup {(P \ {b}) \cup {b \cup {x}} : b \in P} :
                        P \in Partitions(S \ {x})}

\* the nodes joined to the nodes of R by a path
RECURSIVE Reach(_, _)
Reach(g, R) ==
    LET more == R \cup UNION {e \in DOMAIN g.edges : e \cap R # {}}
    IN  IF more = R THEN R ELSE Reach(g, more)

\* louvain_communities: a node only ever joins the community of one of its
\* neighbours, so a community lies within one connected component
LouvainCommunities(g) ==
    {P \in Partitions(g.nodes) : \A b \in P : \A n \in b : b \subseteq Reach(g, {n})}

\* round(x, 2) of the fraction num / den, in hundredths
Round2(num, den) == (2 * 100 * num + den) \div (2 * den)

\* detect_communities: the statistics of one community
Confidence(g, c) ==
    LET sub == {e \in DOMAIN g.edges : e \subseteq c}
        total_edge_weight == SumOver([e \in sub |-> g.edges[e].weight], sub)
        same_side_total == SumOver([e \in sub |-> g.edges[e].same_side_count], sub)
        n == Cardinality(c)
        max_edges2 == n * (n - 1)
        \* (edge_density * 0.5 + same_side_ratio * 0.5) * 100, as a fraction
        dnum == IF max_edges2 > 0 THEN 2 * Cardinality(sub) ELSE 0
        dden == IF max_edges2 > 0 THEN max_edges2 ELSE 1
        snum == IF total_edge_weight > 0 THEN same_side_total ELSE 0
        sden == IF total_edge_weight > 0 THEN total_edge_weight ELSE 1
        raw == Round2(50 * (dnum * sden + snum * dden), dden * sden)
    IN  IF raw > 10000 THEN 10000 ELSE raw

SameSideRatio(g, c) ==
    LET sub == {e \in DOMAIN g.edges : e \subseteq c}
        total_edge_weight == SumOver([e \in sub |-> g.edges[e].weight], sub)
        same_side_total == SumOver([e \in sub |-> g.edges[e].same_side_count], sub)
    IN  IF total_edge_weight > 0
        THEN (2 * 1000 * same_side_total + total_edge_weight) \div (2 * total_edge_weight)
        ELSE 0

Surviving_AnyConfidence(g, communities) ==
    {c \in communities : ~(Cardinality(c) < MIN_CLUSTER_SIZE)}

\* detect_communities: the communities that become clusters
Surviving(g, communities) ==
    {c \in communities :
        /\ ~(Cardinality(c) < MIN_CLUSTER_SIZE)
        /\ ~(Confidence(g, c) < MIN_CLUSTER_CONFIDENCE)}

ClusterOf(g, c) ==
    [cluster_id |-> <<"cluster", c>>, wallet_count |-> Cardinality(c),
     confidence |-> Confidence(g, c), wallets |-> c,
     same_side_ratio |-> SameSideRatio(g, c)]

\* clusters.sort(key=confidence, reverse=True)
SortedByConfidence(cs) ==
    {s \in [1..Cardinality(cs) -> cs] :
        /\ \A c \in cs : \E i \in DOMAIN s : s[i] = c
        /\ \A i, j \in DOMAIN s : i < j => s[i].confidence >= s[j].confidence}

\* detect_communities: the lists it can return for the communities P
ClustersOf(g, P) == SortedByConfidence({ClusterOf(g, c) : c \in Surviving(g, P)})

\* detect_communities
detect_communities(g) ==
    IF g.nodes = {} THEN {<< >>}
    ELSE UNION {ClustersOf(g, P) : P \in LouvainCommunities(g)}

\* the persisted tables save_clusters writes
Tables(ct, ws) == [clusters_table |-> ct, wallet_scores |-> ws]

\* run: build_temporal_graph starts on a fresh graph
HighRiskWallets_All(min_score) == DOMAIN insider_score

\* build_temporal_graph: SELECT wallet_address FROM wallet_scores WHERE
\* insider_score >= ?
HighRiskWallets(min_score) ==
    {w \in DOMAIN insider_score : insider_score[w] >= min_score}

FreshGraph_Kept(g) == g

\* build_temporal_graph: self.graph = nx.Graph()
FreshGraph(g) == EmptyGraph

RunCall(min_score) ==
    /\ dpc.pc = "idle"
    /\ graph' = FreshGraph(graph)
    /\ dpc' = [dpc EXCEPT
            !.pc = "scan", !.idx = 0, !.min_score = min_score,
            !.high_risk_wallets =
                IF min_score > 0 THEN HighRiskWallets(min_score) ELSE {}]
    /\ UNCHANGED <<clusters, clusters_table, wallet_scores, conn>>
    /\ ClusterFrame

\* build_temporal_graph: the markets the loop has yet to scan
MarketsLeft == {m \in MultiWalletMarkets : m > dpc.idx}

\* the market the loop over the rows takes next
FirstOf(left) == CHOOSE x \in left : \A y \in left : x <= y

\* build_temporal_graph: one turn of the loop over the markets
ScanMarket ==
    /\ dpc.pc = "scan"
    /\ MarketsLeft # {}
    /\ LET m == FirstOf(MarketsLeft)
           ts == IF dpc.min_score > 0
                 THEN {t \in TradesOf(m) : t.wallet_address \in dpc.high_risk_wallets}
                 ELSE TradesOf(m)
       IN  /\ IF dpc.min_score > 0 /\ Cardinality(ts) < 2
              THEN graph' = graph
              ELSE graph' \in {find_temporal_pairs(graph, sorted_trades) :
                                    sorted_trades \in SortedByTimestamp(ts)}
           /\ dpc' = [dpc EXCEPT !.idx = m]
    /\ UNCHANGED <<clusters, clusters_table, wallet_scores, conn>>
    /\ ClusterFrame

\* build_temporal_graph: the loop is over, weak edges are removed
PruneEdges ==
    /\ dpc.pc = "scan"
    /\ MarketsLeft = {}
    /\ graph' = remove_edges_from(graph, WeakEdges(graph))
    /\ dpc' = [dpc EXCEPT !.pc = "isolates", !.built = graph]
    /\ UNCHANGED <<clusters, clusters_table, wallet_scores, conn>>
    /\ ClusterFrame

RemoveIsolates ==
    /\ dpc.pc = "isolates"
    /\ graph' = remove_nodes_from(graph, Isolates(graph))
    /\ dpc' = [dpc EXCEPT !.pc = "low_degree"]
    /\ UNCHANGED <<clusters, clusters_table, wallet_scores, conn>>
    /\ ClusterFrame

RemoveLowDegree ==
    /\ dpc.pc = "low_degree"
    /\ graph' = remove_nodes_from(graph, LowDegreeNodes(graph))
    /\ dpc' = [dpc EXCEPT !.pc = "detect"]
    /\ UNCHANGED <<clusters, clusters_table, wallet_scores, conn>>
    /\ ClusterFrame

\* run: clusters = self.detect_communities()
\* louvain_communities(..., seed=42): the random choices are seeded, so
\* the communities are a function of the graph; on the graph of the run
\* before it returns what it returned then
Seeded(g, P) == (dpc.first.ran /\ g = dpc.first.graph) => P = dpc.first.communities

Detect ==
    /\ dpc.pc = "detect"
    /\ \E P \in IF graph.nodes = {} THEN {{}} ELSE LouvainCommunities(graph) :
        /\ Seeded(graph, P)
        /\ clusters' \in ClustersOf(graph, P)
        /\ dpc' = [dpc EXCEPT !.pc = "detected", !.communities = P]
    /\ UNCHANGED <<graph, clusters_table, wallet_scores, conn>>
    /\ ClusterFrame

\* run: "if clusters:" is false, run returns
RunSkipSave ==
    /\ dpc.pc = "detected"
    /\ clusters = << >>
    /\ dpc' = [dpc EXCEPT !.pc = "done"]
    /\ UNCHANGED <<graph, clusters, clusters_table, wallet_scores, conn>>
    /\ ClusterFrame

\* run: "if clusters:" is true; save_clusters opens its connection
RunSave ==
    /\ dpc.pc = "detected"
    /\ clusters # << >>
    /\ conn' = [open |-> TRUE, clusters_table |-> clusters_table,
                wallet_scores |-> wallet_scores]
    /\ dpc' = [dpc EXCEPT !.pc = "delete",
                          !.before = Tables(clusters_table, wallet_scores)]
    /\ UNCHANGED <<graph, clusters, clusters_table, wallet_scores>>
    /\ ClusterFrame

\* save_clusters: DELETE FROM clusters
SaveDelete ==
    /\ dpc.pc = "delete"
    /\ conn' = [conn EXCEPT !.clusters_table = {}]
    /\ dpc' = [dpc EXCEPT !.pc = "clear"]
    /\ UNCHANGED <<graph, clusters, clusters_table, wallet_scores>>
    /\ ClusterFrame

\* save_clusters: UPDATE wallet_scores SET cluster_id = NULL
SaveClearLinks ==
    /\ dpc.pc = "clear"
    /\ conn' = [conn EXCEPT !.wallet_scores = [w \in DOMAIN @ |-> NoCluster]]
    /\ dpc' = [dpc EXCEPT !.pc = "insert", !.idx = 1]
    /\ UNCHANGED <<graph, clusters, clusters_table, wallet_scores>>
    /\ ClusterFrame

\* the columns of a cluster that the clusters table stores
ClusterRow(c) ==
    [cluster_id |-> c.cluster_id, wallet_count |-> c.wallet_count,
     confidence |-> c.confidence]

\* save_clusters: INSERT OR REPLACE INTO clusters, for the next cluster
SaveInsert ==
    /\ dpc.pc = "insert"
    /\ dpc.idx <= Len(clusters)
    /\ LET c == clusters[dpc.idx]
       IN  /\ conn' = [conn EXCEPT !.clusters_table =
                        {r \in @ : r.cluster_id # c.cluster_id} \cup {ClusterRow(c)}]
           /\ dpc' = [dpc EXCEPT !.pc = "link", !.left = c.wallets]
    /\ UNCHANGED <<graph, clusters, clusters_table, wallet_scores>>
    /\ ClusterFrame

\* save_clusters: UPDATE wallet_scores SET cluster_id = ? WHERE
\* wallet_address = ?, for the next wallet of the cluster; a wallet without
\* a wallet_scores row matches no row
SaveLink ==
    /\ dpc.pc = "link"
    /\ \E w \in dpc.left :
        /\ conn' = [conn EXCEPT !.wallet_scores =
                     [x \in DOMAIN @ |->
                        IF x = w THEN clusters[dpc.idx].cluster_id ELSE @[x]]]
        /\ dpc' = IF dpc.left = {w}
                  THEN [dpc EXCEPT !.pc = "insert", !.idx = @ + 1, !.left = {}]
                  ELSE [dpc EXCEPT !.left = @ \ {w}]
    /\ UNCHANGED <<graph, clusters, clusters_table, wallet_scores>>
    /\ ClusterFrame

\* get_connection: what the store holds once the connection is closed with
\* its transaction still open: SQLite rolls the transaction back
CloseUncommitted_Autocommit(committed, view) == view

CloseUncommitted(committed, view) == committed

\* save_clusters: conn.commit(), then the connection is closed
SaveCommit ==
    /\ dpc.pc = "insert"
    /\ dpc.idx > Len(clusters)
    /\ clusters_table' = conn.clusters_table
    /\ wallet_scores' = conn.wallet_scores
    /\ conn' = NoConn
    /\ dpc' = [dpc EXCEPT !.pc = "done"]
    /\ UNCHANGED <<graph, clusters>>
    /\ ClusterFrame

SavePcs == {"delete", "clear", "insert", "link"}

\* save_clusters: a statement, or the commit, raises; the exception leaves
\* the with block, whose finally closes the connection
SaveRaise ==
    /\ dpc.pc \in SavePcs
    /\ LET after == CloseUncommitted(Tables(clusters_table, wallet_scores),
                                     Tables(conn.clusters_table, conn.wallet_scores))
       IN  /\ clusters_table' = after.clusters_table
           /\ wallet_scores' = after.wallet_scores
    /\ conn' = NoConn
    /\ dpc' = [dpc EXCEPT !.pc = "failed", !.at = dpc.pc]
    /\ UNCHANGED <<graph, clusters>>
    /\ ClusterFrame

\* run is called once more on the same detector, with the same min_score,
\* after it has returned
RunAgain ==
    /\ dpc.pc = "done"
    /\ ~dpc.first.ran
    /\ graph' = FreshGraph(graph)
    /\ dpc' = [dpc EXCEPT
            !.pc = "scan", !.idx = 0,
            !.high_risk_wallets =
                IF dpc.min_score > 0 THEN HighRiskWallets(dpc.min_score) ELSE {},
            !.first = [ran |-> TRUE, built |-> dpc.built, graph |-> graph,
                       communities |-> dpc.communities, clusters |-> clusters]]
    /\ UNCHANGED <<clusters, clusters_table, wallet_scores, conn>>
    /\ ClusterFrame

(***************************************************************************)
(* ClusterDetector.run over stores of co-trading wallets.                  *)
(***************************************************************************)
InitDetect ==
    /\ IngestRest
    /\ \E n \in 2..MaxWallets, k \in MarketCounts, gap \in Gaps, sameSide \in BOOLEAN :
            trades = CoTrades(n, k, gap, sameSide)
    /\ OthersIdle

NextDetect ==
    \/ RunCall(0)
    \/ ScanMarket
    \/ PruneEdges
    \/ RemoveIsolates
    \/ RemoveLowDegree
    \/ Detect
    \/ RunSkipSave

SpecDetect == InitDetect /\ [][NextDetect]_vars

\* the scan is over and every pair of the wallets is joined by an edge of
\* this weight, all of it on the same side
FullyJoined(n, w) ==
    /\ graph.nodes = 1..n
    /\ \A u, v \in 1..n : u # v =>
        /\ {u, v} \in DOMAIN graph.edges
        /\ graph.edges[{u, v}] = [weight |-> w, same_side_count |-> w]

\* C18: under the default thresholds, a store of only 5 wallets that each
\* trade the same 60 markets within the temporal window of one another,
\* always on the same outcome index, makes run return exactly one cluster,
\* of size 5, same-side ratio 1.0 and confidence 100.0; with only 10
\* co-trades per pair of wallets run returns zero clusters.
C18_ClusterCorrectness ==
    dpc.pc = "done" =>
        /\ (\E gap \in {0, 60} : trades = CoTrades(5, 60, gap, TRUE)) =>
            /\ Len(clusters) = 1
            /\ clusters[1].wallet_count = 5
            /\ clusters[1].same_side_ratio = 1000
            /\ clusters[1].confidence = 10000
        /\ (\E gap \in {0, 60} : trades = CoTrades(5, 10, gap, TRUE)) =>
            clusters = << >>

(***************************************************************************)
(* The end of ClusterDetector.run: detect_communities has returned, the    *)
(* store holds what an earlier run left.  The detected communities are     *)
(* triangles of wallets that co-traded MIN_EDGE_WEIGHT markets, as remain  *)
(* when the degree filter has removed the neighbours that gave each of     *)
(* them its degree.                                                        *)
(***************************************************************************)
MaxClusters == 2

\* the wallets of the i-th detected community
Community(i) == {3 * i - 2, 3 * i - 1, 3 * i}

\* the pruned graph whose communities are the first n triangles
Triangles(n) ==
    LET es == UNION {{e \in SUBSET Community(i) : Cardinality(e) = 2} : i \in 1..n}
    IN  [nodes |-> UNION {Community(i) : i \in 1..n},
         edges |-> [e \in es |-> [weight |-> MIN_EDGE_WEIGHT,
                                  same_side_count |-> MIN_EDGE_WEIGHT]]]

\* what detect_communities returns on that graph
Detected(n) == [i \in 1..n |-> ClusterOf(Triangles(n), Community(i))]

\* the cluster an earlier run persisted: two wallets of the first community
\* and a wallet outside every community
OldCommunity == {1, 2, 3 * MaxClusters + 1}

OldCluster == [cluster_id |-> <<"cluster", OldCommunity>>, wallet_count |-> 3,
               confidence |-> 8000]

\* the wallets that have a wallet_scores row
ScoredWallets == {1, 2, 4, 3 * MaxClusters + 1}

InitSave ==
    /\ IngestIdle /\ MonitorIdle /\ LimiterIdle /\ RetryIdle /\ FingerprintIdle /\ StatsIdle
    /\ \E n \in 0..MaxClusters :
        /\ graph = Triangles(n)
        /\ clusters = Detected(n)
    /\ dpc = [DetectorIdle EXCEPT !.pc = "detected"]
    /\ \/ /\ clusters_table = {}
          /\ wallet_scores = [w \in ScoredWallets |-> NoCluster]
       \/ /\ clusters_table = {OldCluster}
          /\ wallet_scores \in [ScoredWallets -> {NoCluster, OldCluster.cluster_id}]
          /\ \A w \in ScoredWallets : wallet_scores[w] # NoCluster => w \in OldCommunity
    /\ insider_score = [w \in ScoredWallets |-> 0]
    /\ conn = NoConn

NextSave ==
    \/ RunSkipSave
    \/ RunSave
    \/ SaveDelete
    \/ SaveClearLinks
    \/ SaveInsert
    \/ SaveLink
    \/ SaveCommit
    \/ SaveRaise

SpecSave == InitSave /\ [][NextSave]_vars

\* the rows and links that persist exactly the clusters run detected
DetectedRows == {ClusterRow(clusters[i]) : i \in DOMAIN clusters}

DetectedLink(w) ==
    IF \E i \in DOMAIN clusters : w \in clusters[i].wallets
    THEN clusters[CHOOSE i \in DOMAIN clusters : w \in clusters[i].wallets].cluster_id
    ELSE NoCluster

\* C19: after every completed run the clusters table and the
\* wallet-to-cluster links hold exactly the clusters that run detected; no
\* cluster row and no cluster_id link of an earlier run survives, also when
\* the run detects zero clusters.
C19_FullReplace ==
    dpc.pc = "done" =>
        /\ clusters_table = DetectedRows
        /\ \A w \in DOMAIN wallet_scores : wallet_scores[w] = DetectedLink(w)

\* C20: while save_clusters runs and after it has failed, the persisted
\* clusters table and every wallet_scores.cluster_id are what they were
\* when save_clusters started: no state with the old clusters deleted and
\* only some of the new clusters or links written is ever persisted.
C20_AllOrNothing ==
    dpc.pc \in SavePcs \cup {"failed"} =>
        Tables(clusters_table, wallet_scores) = dpc.before

\* save_clusters fails while linking the wallets of the second cluster: on
\* its connection the old cluster is deleted, the old links are cleared and
\* the first cluster is written
C20_Witness ==
    /\ dpc.pc = "failed"
    /\ dpc.at = "link"
    /\ dpc.idx = 2
    /\ OldCluster \in dpc.before.clusters_table
    /\ \E w \in ScoredWallets : dpc.before.wallet_scores[w] # NoCluster

(***************************************************************************)
(* detect_communities and save_clusters on pruned graphs.  The graphs are  *)
(* what build_temporal_graph can leave: every edge has at least            *)
(* MIN_EDGE_WEIGHT, while degrees may be anything, isolated nodes          *)
(* included, since the degree filter runs once and does not look at the    *)
(* graph it leaves.  Two groups of three wallets, each with any of its     *)
(* edges, and one same-side count per group.                               *)
(***************************************************************************)
WalletGroups == {{1, 2, 3}, {4, 5, 6}}

SameSideCounts == {0, 2, MIN_EDGE_WEIGHT}

GroupEdges(G) == {e \in SUBSET G : Cardinality(e) = 2}

PrunedGraphs ==
    {[nodes |-> UNION WalletGroups,
      edges |-> [e \in es |->
                    [weight |-> MIN_EDGE_WEIGHT,
                     same_side_count |-> ssc[CHOOSE G \in WalletGroups : e \subseteq G]]]] :
        es \in SUBSET UNION {GroupEdges(G) : G \in WalletGroups},
        ssc \in [WalletGroups -> SameSideCounts]}

InitCommunities ==
    /\ IngestIdle /\ MonitorIdle /\ LimiterIdle /\ RetryIdle /\ FingerprintIdle /\ StatsIdle
    /\ graph \in PrunedGraphs
    /\ dpc = [DetectorIdle EXCEPT !.pc = "detect"]
    /\ clusters = << >>
    /\ clusters_table = {}
    /\ wallet_scores = [w \in ScoredWallets |-> NoCluster]
    /\ insider_score = [w \in ScoredWallets |-> 0]
    /\ conn = NoConn

NextCommunities ==
    \/ Detect
    \/ RunSkipSave
    \/ RunSave
    \/ SaveDelete
    \/ SaveClearLinks
    \/ SaveInsert
    \/ SaveLink
    \/ SaveCommit
    \/ SaveRaise

SpecCommunities == InitCommunities /\ [][NextCommunities]_vars

\* confidence as the claim states it, in hundredths: density is edges over
\* n(n-1)/2, the same-side ratio is the sum of same_side_count over the sum
\* of weight, both over the subgraph the community induces
StatedConfidence(g, c) ==
    LET inside == {e \in DOMAIN g.edges : e \subseteq c}
        n == Cardinality(c)
        W == SumOver([e \in inside |-> g.edges[e].weight], inside)
        S == SumOver([e \in inside |-> g.edges[e].same_side_count], inside)
        \* density = dn / dd, ratio = sn / sd
        dn == 2 * Cardinality(inside)
        dd == IF n > 1 THEN n * (n - 1) ELSE 1
        sn == IF W > 0 THEN S ELSE 0
        sd == IF W > 0 THEN W ELSE 1
        \* (density * 0.5 + ratio * 0.5) * 100 * 100 = num / den
        num == 5000 * (dn * sd + sn * dd)
        den == dd * sd
        capped == IF num > 10000 * den THEN 10000 * den ELSE num
    IN  (2 * capped + den) \div (2 * den)

\* C21: every cluster detect_communities returns and every cluster row
\* persisted has wallet_count >= 3 and 35.0 <= confidence <= 100, with
\* confidence = round(min((density*0.5 + sameSideRatio*0.5)*100, 100), 2);
\* a community that fails either threshold is neither returned nor
\* persisted.
C21_Thresholds ==
    /\ \A i \in DOMAIN clusters :
        /\ clusters[i].wallet_count = Cardinality(clusters[i].wallets)
        /\ clusters[i].wallet_count >= 3
        /\ clusters[i].confidence = StatedConfidence(graph, clusters[i].wallets)
        /\ clusters[i].confidence >= 3500
        /\ clusters[i].confidence <= 10000
    /\ \A r \in clusters_table :
        /\ r.wallet_count >= 3
        /\ r.confidence >= 3500
        /\ r.confidence <= 10000
    /\ \A c \in dpc.communities :
        (Cardinality(c) < 3 \/ StatedConfidence(graph, c) < 3500) =>
            /\ \A i \in DOMAIN clusters : clusters[i].wallets # c
            /\ \A r \in clusters_table : r.cluster_id # <<"cluster", c>>

\* a completed run that persisted a cluster, while Louvain had also
\* returned a community of three wallets below the confidence threshold
C21_Witness ==
    /\ dpc.pc = "done"
    /\ clusters_table # {}
    /\ \E c \in dpc.communities : Cardinality(c) >= 3 /\ StatedConfidence(graph, c) < 3500

(***************************************************************************)
(* The statistics functions (src/analysis/stats.py) and the normalization  *)
(* helpers, called on arguments drawn from bounded sets.  Prices and       *)
(* rates are counted in hundredths, money in cents, scores in hundredths   *)
(* of a point.                                                             *)
(***************************************************************************)
StatsFrame == UNCHANGED <<ingestVars, monitorVars, limiterVars, retryVars, fingerprintVars, clusterVars>>

\* n / d rounded to the nearest integer, for n >= 0 and d > 0
RoundDiv(n, d) == (2 * n + d) \div (2 * d)

\* size * (1.0 / price - 1.0) in cents, for a price in hundredths above 0
\* and at most 100
Payout(price, size) == RoundDiv(100 * size * (100 - price), price)

\* compute_pnl, in cents
compute_pnl(price, size, is_winner, side) ==
    IF side = "BUY"
    THEN IF is_winner
         THEN IF price > 0 THEN Payout(price, size) ELSE 0
         ELSE 0 - 100 * size
    ELSE IF is_winner
         THEN 100 * size
         ELSE IF price > 0 THEN 0 - Payout(price, size) ELSE 0

\* the arguments compute_pnl is called on
PnlPrices == {0 - 25, 0, 25, 50, 100}

PnlSizes == {1, 40, 100}

PnlCalls ==
    {[fn |-> "compute_pnl", done |-> FALSE, result |-> << >>,
      args |-> [price |-> pr, size |-> sz, is_winner |-> w, side |-> sd]] :
        pr \in PnlPrices, sz \in PnlSizes, w \in BOOLEAN, sd \in {"BUY", "SELL"}}

ComputePnl ==
    /\ call.fn = "compute_pnl"
    /\ ~call.done
    /\ call' = [call EXCEPT !.done = TRUE,
                   !.result = compute_pnl(call.args.price, call.args.size,
                                          call.args.is_winner, call.args.side)]
    /\ UNCHANGED <<scorer, scores>>
    /\ StatsFrame

Returned(fn) == call.fn = fn /\ call.done

\* C24: compute_pnl returns size*(1/price - 1) for BUY+win, -size for
\* BUY+loss, +size for SELL+win and -size*(1/price - 1) for SELL+loss (BUY
\* 100 at 0.25: a win gives 300, a loss -100), and returns 0 for every
\* side and outcome whenever price <= 0.
C24_ComputePnl ==
    Returned("compute_pnl") =>
        LET a == call.args
        IN  /\ a.price > 0 =>
                call.result =
                    CASE a.side = "BUY" /\ a.is_winner -> Payout(a.price, a.size)
                      [] a.side = "BUY" /\ ~a.is_winner -> 0 - 100 * a.size
                      [] a.side = "SELL" /\ a.is_winner -> 100 * a.size
                      [] a.side = "SELL" /\ ~a.is_winner -> 0 - Payout(a.price, a.size)
            /\ (a.price = 25 /\ a.size = 100 /\ a.side = "BUY") =>
                call.result = IF a.is_winner THEN 30000 ELSE 0 - 10000
            /\ a.price <= 0 => call.result = 0

(***************************************************************************)
(* composite_insider_score.  Points are counted in units of 1/6480, in     *)
(* which every component is a whole number for whole seconds, hundredths   *)
(* of win rate and correlation, and p-values that are powers of ten.  A    *)
(* p-value is [zero, exp]: 0, or 10^-exp.                                  *)
(***************************************************************************)
PointUnit == 5 * 1296

\* "P-value component": -log10(max(p_value, 1e-30)) / 15, at most 1, times 40
Significance_Uncapped(p_value) ==
    IF p_value.zero THEN 0
    ELSE (IF p_value.exp > 30 THEN 30 ELSE p_value.exp) * 17280

Significance(p_value) ==
    IF p_value.zero THEN 0
    ELSE LET log_p == IF p_value.exp > 30 THEN 30 ELSE p_value.exp
         IN  IF log_p >= 15 THEN 40 * PointUnit ELSE log_p * 17280

\* "Timing component", timing_avg in seconds
Timing(timing_avg) ==
    IF timing_avg > 0
    THEN IF timing_avg < 3600 THEN 25 * PointUnit
         ELSE IF timing_avg < 6 * 3600
              THEN 25 * PointUnit - (timing_avg - 3600) * 9
         ELSE IF timing_avg < 24 * 3600
              THEN 10 * PointUnit - (timing_avg - 6 * 3600)
         ELSE 0
    ELSE 0

\* "Size-win correlation", size_corr in hundredths
Correlation(size_corr) ==
    IF size_corr > 0
    THEN (IF size_corr < 100 THEN size_corr ELSE 100) * 1296
    ELSE 0

\* "Win rate bonus", win_rate in hundredths
WinRateBonus(win_rate) ==
    IF win_rate > 70
    THEN (IF win_rate - 70 < 30 THEN win_rate - 70 ELSE 30) * 2160
    ELSE 0

\* "Volume bonus"
VolumeBonus(total_trades) ==
    IF total_trades >= 20
    THEN (IF total_trades - 20 < 80 THEN total_trades - 20 ELSE 80) * 405
    ELSE 0

\* composite_insider_score, in hundredths of a point: round(min(score, 100.0), 2)
composite_insider_score(win_rate, p_value, timing_avg, size_corr, total_pnl, total_trades) ==
    LET score == Significance(p_value) + Timing(timing_avg) + Correlation(size_corr)
                    + WinRateBonus(win_rate) + VolumeBonus(total_trades)
        capped == IF score < 100 * PointUnit THEN score ELSE 100 * PointUnit
    IN  RoundDiv(100 * capped, PointUnit)

\* the arguments composite_insider_score is called on: each in its range,
\* at and around the corners of its component
WinRates == {0, 70, 71, 85, 100}

PValues == {[zero |-> TRUE, exp |-> 0]} \cup {[zero |-> FALSE, exp |-> k] : k \in {0, 1, 7, 15, 30, 31}}

Leads == {0 - 3600, 0, 1, 3599, 3600, 12600, 21599, 21600, 54000, 86399, 86400, 200000}

Correlations == {0 - 50, 0, 1, 50, 100}

TradeCounts == {0, 19, 20, 60, 100, 500}

CompositeCalls ==
    {[fn |-> "composite_insider_score", done |-> FALSE, result |-> << >>,
      args |-> [win_rate |-> wr, p_value |-> pv, timing_avg |-> t, size_corr |-> c,
                total_pnl |-> 0, total_trades |-> n]] :
        wr \in WinRates, pv \in PValues, t \in Leads, c \in Correlations, n \in TradeCounts}

CompositeScore ==
    /\ call.fn = "composite_insider_score"
    /\ ~call.done
    /\ call' = [call EXCEPT !.done = TRUE,
                   !.result = composite_insider_score(call.args.win_rate, call.args.p_value,
                                 call.args.timing_avg, call.args.size_corr,
                                 call.args.total_pnl, call.args.total_trades)]
    /\ UNCHANGED <<scorer, scores>>
    /\ StatsFrame

\* the score of the returned call, had the average lead been t
WithLead(t) ==
    composite_insider_score(call.args.win_rate, call.args.p_value, t,
                            call.args.size_corr, call.args.total_pnl, call.args.total_trades)

\* C25: the timing component is 25 points for an average lead under 1
\* hour and 0 for a lead of 24 hours or more; with the other inputs fixed,
\* the score never increases when the average lead increases.
C25_TimingDecay ==
    Returned("composite_insider_score") =>
        LET t == call.args.timing_avg
        IN  /\ (t > 0 /\ t < 3600) => Timing(t) = 25 * PointUnit
            /\ t >= 24 * 3600 => Timing(t) = 0
            /\ t > 0 => \A later \in {x \in Leads : x >= t} : WithLead(later) <= call.result

\* C26: composite_insider_score returns a value in [0, 100], and every
\* component stays within its cap: significance in [0, 40], timing in
\* [0, 25], correlation in [0, 20] and 0 when the correlation is not
\* positive, win-rate bonus in [0, 10] and 0 at win rates up to 0.7, volume
\* bonus in [0, 5], 0 below 20 trades and full at 100 trades.
C26_ScoreBounds ==
    Returned("composite_insider_score") =>
        LET a == call.args
        IN  /\ call.result >= 0 /\ call.result <= 10000
            /\ Significance(a.p_value) >= 0 /\ Significance(a.p_value) <= 40 * PointUnit
            /\ Timing(a.timing_avg) >= 0 /\ Timing(a.timing_avg) <= 25 * PointUnit
            /\ Correlation(a.size_corr) >= 0 /\ Correlation(a.size_corr) <= 20 * PointUnit
            /\ a.size_corr <= 0 => Correlation(a.size_corr) = 0
            /\ WinRateBonus(a.win_rate) >= 0 /\ WinRateBonus(a.win_rate) <= 10 * PointUnit
            /\ a.win_rate <= 70 => WinRateBonus(a.win_rate) = 0
            /\ VolumeBonus(a.total_trades) >= 0 /\ VolumeBonus(a.total_trades) <= 5 * PointUnit
            /\ a.total_trades < 20 => VolumeBonus(a.total_trades) = 0
            /\ a.total_trades >= 100 => VolumeBonus(a.total_trades) = 5 * PointUnit

\* a call with every component at its cap, two of them beyond the point
\* where the cap sets in, returns 100.0
C26_Witness ==
    /\ Returned("composite_insider_score")
    /\ call.args.p_value.exp = 30
    /\ ~call.args.p_value.zero
    /\ call.args.total_trades = 500
    /\ call.args.timing_avg = 3599
    /\ call.args.size_corr = 100
    /\ call.args.win_rate = 100
    /\ call.result = 10000

(***************************************************************************)
(* binomial_p_value.  The entry probability is in hundredths; the p-value  *)
(* of scipy's one-sided test is the exact tail of the binomial             *)
(* distribution, a fraction whose denominator is 100^total.                *)
(***************************************************************************)
RECURSIVE Power(_, _)
Power(b, n) == IF n = 0 THEN 1 ELSE b * Power(b, n - 1)

RECURSIVE Choose(_, _)
Choose(n, k) == IF k = 0 \/ k = n THEN 1 ELSE Choose(n - 1, k - 1) + Choose(n - 1, k)

\* 100^total times the probability of exactly k wins
Exactly(k, total, prob) == Choose(total, k) * Power(prob, k) * Power(100 - prob, total - k)

RECURSIVE SumFrom(_, _, _, _)
SumFrom(k, last, total, prob) ==
    IF k > last THEN 0 ELSE Exactly(k, total, prob) + SumFrom(k + 1, last, total, prob)

Certain == [num |-> 1, den |-> 1]

\* alternative="less": the probability of at most this many wins
binomial_p_value_Less(wins, total, avg_market_prob) ==
    IF total = 0 \/ avg_market_prob <= 0 \/ avg_market_prob >= 100 THEN Certain
    ELSE [num |-> SumFrom(0, wins, total, avg_market_prob), den |-> Power(100, total)]

\* binomial_p_value: binomtest(wins, total, p, alternative="greater").pvalue
binomial_p_value(wins, total, avg_market_prob) ==
    IF total = 0 \/ avg_market_prob <= 0 \/ avg_market_prob >= 100 THEN Certain
    ELSE [num |-> SumFrom(wins, total, total, avg_market_prob), den |-> Power(100, total)]

Totals == 0..4

EntryProbabilities == {0 - 10, 0, 1, 25, 50, 90, 99, 100, 150}

BinomialCalls ==
    {c \in {[fn |-> "binomial_p_value", done |-> FALSE, result |-> << >>,
             args |-> [wins |-> w, total |-> n, avg_market_prob |-> pr]] :
                w \in Totals, n \in Totals, pr \in EntryProbabilities} :
        c.args.wins <= c.args.total}

BinomialPValue ==
    /\ call.fn = "binomial_p_value"
    /\ ~call.done
    /\ call' = [call EXCEPT !.done = TRUE,
                   !.result = binomial_p_value(call.args.wins, call.args.total,
                                               call.args.avg_market_prob)]
    /\ UNCHANGED <<scorer, scores>>
    /\ StatsFrame

\* C27: for fixed total > 0 and entry probability in (0, 1) the p-value
\* does not increase with wins over 0..total, and decreases strictly; it is
\* exactly 1 when total = 0 or the probability is outside (0, 1).
C27_SignificanceMonotone ==
    Returned("binomial_p_value") =>
        LET a == call.args
        IN  IF a.total = 0 \/ a.avg_market_prob <= 0 \/ a.avg_market_prob >= 100
            THEN call.result.num = call.result.den
            ELSE \A more \in {w \in 0..a.total : w > a.wins} :
                    LET p2 == binomial_p_value(more, a.total, a.avg_market_prob)
                    IN  /\ p2.den = call.result.den
                        /\ p2.num < call.result.num

\* two wins out of four at entry probability 0.25: a p-value below 1 that
\* further wins lower
C27_Witness ==
    /\ Returned("binomial_p_value")
    /\ call.args.total = 4
    /\ call.args.wins = 2
    /\ call.args.avg_market_prob = 25
    /\ call.result.num < call.result.den
    /\ call.result.num > 0

(***************************************************************************)
(* normalize_market on raw Gamma records.                                  *)
(***************************************************************************)
PriceTexts == {"1", "0.995", "0.99", "0", "abc"}

PriceLists == UNION {[1..n -> PriceTexts] : n \in 0..3}

WirePrices ==
    {[form |-> "absent", items |-> << >>, bracketed |-> FALSE]}
    \cup {[form |-> f, items |-> its, bracketed |-> FALSE] :
            f \in {"list", "json", "text"}, its \in PriceLists}
    \cup {[form |-> "text", items |-> its, bracketed |-> TRUE] : its \in PriceLists \ {<< >>}}

MarketCalls ==
    {[fn |-> "normalize_market", done |-> FALSE, result |-> << >>,
      args |-> [id |-> "m1", conditionId |-> "c1", closed |-> c, outcomePrices |-> w]] :
        c \in BOOLEAN, w \in WirePrices}

NormalizeMarket ==
    /\ call.fn = "normalize_market"
    /\ ~call.done
    /\ call' = [call EXCEPT !.done = TRUE, !.result = normalize_market(call.args)]
    /\ UNCHANGED <<scorer, scores>>
    /\ StatsFrame

\* the price texts of a raw market, when all of them are numbers
Parseable(wire) ==
    /\ ~NoPrices(wire)
    /\ \A i \in DOMAIN PriceItems(wire) : ~NotFloat(PriceItems(wire)[i])

\* the outcomes whose settlement price exceeds 0.99
Above99(wire) == {i \in DOMAIN wire.items : FloatOf(wire.items[i]) > 990}

\* C28: normalize_market sets outcome only if the market is closed and one
\* outcome's settlement price exceeds 0.99, 'Yes' when it is the first
\* outcome and 'No' when it is the second; a market that is not closed, has
\* missing or unparseable prices, or has no single outcome above 0.99 gets
\* outcome unset.
C28_MarketResolution ==
    Returned("normalize_market") =>
        LET raw == call.args
            w == raw.outcomePrices
        IN  /\ call.result.outcome # NULL =>
                /\ raw.closed
                /\ Parseable(w)
                /\ call.result.outcome = "Yes" => 1 \in Above99(w)
                /\ call.result.outcome = "No" => 2 \in Above99(w)
            /\ (~raw.closed \/ ~Parseable(w) \/ Cardinality(Above99(w)) # 1) =>
                call.result.outcome = NULL

(***************************************************************************)
(* The calls of the pure functions.                                        *)
(***************************************************************************)
InitFunctions ==
    /\ IngestIdle /\ MonitorIdle /\ LimiterIdle /\ RetryIdle /\ FingerprintIdle /\ ClusterIdle
    /\ scorer = ScorerIdle
    /\ scores = << >>
    /\ call \in PnlCalls \cup CompositeCalls \cup BinomialCalls \cup MarketCalls

NextFunctions ==
    \/ ComputePnl
    \/ CompositeScore
    \/ BinomialPValue
    \/ NormalizeMarket

SpecFunctions == InitFunctions /\ [][NextFunctions]_vars

(***************************************************************************)
(* WalletScorer (src/analysis/wallet_scorer.py) on stores in which every   *)
(* wallet has some trades of four kinds: BUY won, BUY lost, SELL won and   *)
(* BUY on an unresolved market.  All sizes are equal, so the size-win      *)
(* correlation is 0.0 (no variance), and the markets carry no resolution   *)
(* time, so the average lead is infinite.                                  *)
(***************************************************************************)
MaxPerKind == 1

MaxMinTrades == 2

ScorerWallets == {"a", "b"}

TradeKinds ==
    {[name |-> "buy_won", side |-> "BUY", is_winner |-> "TRUE", price |-> 20],
     [name |-> "buy_lost", side |-> "BUY", is_winner |-> "FALSE", price |-> 60],
     [name |-> "sell_won", side |-> "SELL", is_winner |-> "TRUE", price |-> 60],
     [name |-> "buy_open", side |-> "BUY", is_winner |-> NULL, price |-> 20]}

AllScorerTrades ==
    {[id |-> <<w, k.name, i>>, wallet_address |-> w, market_id |-> "m1", side |-> k.side,
      is_winner |-> k.is_winner, price |-> k.price, size |-> 100] :
        w \in ScorerWallets, k \in TradeKinds, i \in 1..MaxPerKind}

\* the trades table in which wallet w has count[w][k] trades of kind k
ScorerTrades(count) == {t \in AllScorerTrades : t.id[3] <= count[t.id[1]][t.id[2]]}

\* Database.get_trades_for_wallet
get_trades_for_wallet(w) == {t \in trades : t.wallet_address = w}

ResolvedBuys_AnySide(ts) == {t \in ts : t.is_winner # NULL}

\* score_wallet: resolved_trades
ResolvedBuys(ts) == {t \in ts : t.is_winner # NULL /\ t.side = "BUY"}

\* the number of whole decades of a p-value below 1: the largest k with
\* num / den <= 10^-k, in place of -log10
RECURSIVE Decades(_, _)
Decades(num, den) == IF 10 * num > den THEN 0 ELSE 1 + Decades(10 * num, den)

\* the lead passed for float("inf"): any lead of 24 hours or more scores alike
NoLead == 24 * 3600

Absent == [absent |-> TRUE]

\* score_wallet; win_rate in millionths, total_pnl in cents
score_wallet(min_trades, w) ==
    LET resolved_trades == ResolvedBuys(get_trades_for_wallet(w))
        total == Cardinality(resolved_trades)
        wins == Cardinality({t \in resolved_trades : t.is_winner = "TRUE"})
        avg_entry_price ==
            RoundDiv(SumOver([t \in resolved_trades |-> t.price], resolved_trades), total)
        p_val == binomial_p_value(wins, total, avg_entry_price)
        total_pnl ==
            SumOver([t \in resolved_trades |->
                        compute_pnl(t.price, t.size, t.is_winner = "TRUE", t.side)],
                    resolved_trades)
    IN  IF total < min_trades THEN Absent
        ELSE [absent |-> FALSE, wallet_address |-> w, total_trades |-> total,
              win_rate |-> RoundDiv(1000000 * wins, total),
              total_pnl |-> total_pnl,
              insider_score |->
                composite_insider_score(RoundDiv(100 * wins, total),
                    [zero |-> p_val.num = 0, exp |-> IF p_val.num = 0 THEN 0
                                                     ELSE Decades(p_val.num, p_val.den)],
                    NoLead, 0, total_pnl, total)]

\* Database.get_all_active_wallets: GROUP BY wallet_address HAVING COUNT(*) >= ?
get_all_active_wallets(min_trades) ==
    {w \in {t.wallet_address : t \in trades} :
        Cardinality(get_trades_for_wallet(w)) >= min_trades}

\* scores.sort(key=insider_score, reverse=True)
SortedByScore(rs) ==
    {s \in [1..Cardinality(rs) -> rs] :
        /\ \A r \in rs : \E i \in DOMAIN s : s[i] = r
        /\ \A i, j \in DOMAIN s : i < j => s[i].insider_score >= s[j].insider_score}

\* score_all_wallets: the lists it can return
score_all_wallets(self_min_trades, given, min_trades) ==
    LET threshold == IF given THEN min_trades ELSE self_min_trades
        wallets == get_all_active_wallets(threshold)
        results == {score_wallet(self_min_trades, w) : w \in wallets}
    IN  SortedByScore({r \in results : ~r.absent})

\* a call of score_wallet
ScoreWallet(w) ==
    /\ scorer.pc = "idle"
    /\ scores' = <<score_wallet(scorer.min_trades, w)>>
    /\ scorer' = [scorer EXCEPT !.pc = "score_wallet", !.wallet = w]
    /\ UNCHANGED call
    /\ StatsFrame

\* a call of score_all_wallets, with min_trades given or left to default
ScoreAllWallets(given, n) ==
    /\ scorer.pc = "idle"
    /\ scores' \in score_all_wallets(scorer.min_trades, given, n)
    /\ scorer' = [scorer EXCEPT !.pc = "score_all_wallets", !.given = given, !.arg = n]
    /\ UNCHANGED call
    /\ StatsFrame

InitScorer ==
    /\ IngestRest /\ MonitorIdle /\ LimiterIdle /\ RetryIdle /\ FingerprintIdle /\ ClusterIdle
    /\ \E count \in [ScorerWallets -> [{k.name : k \in TradeKinds} -> 0..MaxPerKind]] :
            trades = ScorerTrades(count)
    /\ \E n \in 1..MaxMinTrades : scorer = [ScorerIdle EXCEPT !.min_trades = n]
    /\ scores = << >>
    /\ call = NoCall

NextScorer ==
    \/ \E w \in ScorerWallets : ScoreWallet(w)
    \/ \E n \in 1..MaxMinTrades : ScoreAllWallets(TRUE, n)
    \/ ScoreAllWallets(FALSE, 0)

SpecScorer == InitScorer /\ [][NextScorer]_vars

\* the trades of a wallet the claims count: BUY, with a winner flag
BuyResolved(w) ==
    {t \in trades : t.wallet_address = w /\ t.side = "BUY" /\ t.is_winner \in {"TRUE", "FALSE"}}

\* the PnL of BUY trades in cents: size*(1/price - 1) on a win, -size on a loss
BuyPnl(t) ==
    IF t.is_winner = "TRUE" THEN (100 * t.size * (100 - t.price)) \div t.price
    ELSE 0 - 100 * t.size

C23_TradeCountFloor ==
    (scorer.pc = "score_all_wallets" /\ scorer.given) =>
        /\ \A w \in ScorerWallets :
            Cardinality({i \in DOMAIN scores : scores[i].wallet_address = w})
                = IF Cardinality(BuyResolved(w)) >= scorer.arg THEN 1 ELSE 0
        /\ \A i, j \in DOMAIN scores :
            i < j => scores[i].insider_score >= scores[j].insider_score
\* ---------------------------------------------------------------------
\* Per-market ordering of the queue between fetchers and writer
\* ---------------------------------------------------------------------

IsPrefix(s, t) ==
    /\ Len(s) <= Len(t)
    /\ \A i \in DOMAIN s : s[i] = t[i]

\* C29: for each market the writer dequeues the market's trade records in
\* the order its fetcher fetched them, page after page and record after
\* record, and dequeues the market's end item only after all of them,
\* whatever the interleaving of the fetchers.
C29_PerMarketOrder ==
    \A m \in MarketIds :
        /\ IsPrefix(hist.deq[m], hist.fet[m])
        /\ m \in hist.ended => hist.deq[m] = hist.fet[m]

\* a market of more than one page with distinct records has been dequeued
\* to its end while another market's records were dequeued among them and
\* that market's end item is still to come
C29_Witness ==
    \E m1, m2 \in MarketIds :
        /\ m1 # m2
        /\ m1 \in hist.ended
        /\ Len(hist.deq[m1]) > DATA_API_PAGE_SIZE
        /\ hist.deq[m1][1] # hist.deq[m1][Len(hist.deq[m1])]
        /\ hist.deq[m2] # << >>
        /\ m2 \notin hist.ended
        /\ queue # << >>
\* ---------------------------------------------------------------------
\* The pair scan of build_temporal_graph
\* ---------------------------------------------------------------------

\* the largest number of trades on the scanned market of a scenario
MaxScanTrades == 3

\* scripts/detect_clusters.py: --min-score, default
DEFAULT_MIN_SCORE == 25

\* the values of min_score run is called with: its own default and the
\* command line's
MinScores == {0, DEFAULT_MIN_SCORE}

ScanWallets == {1, 2, 3}

\* timestamps of the trades of a scenario: a window apart, and one second more
ScanTimes == {0, TEMPORAL_WINDOW_SECONDS, TEMPORAL_WINDOW_SECONDS + 1}

\* the trades table of a scenario: on market 1 up to MaxScanTrades trades,
\* each by any wallet at any of the times on either outcome; on market 2
\* wallets 1 and 2 trade exactly one window apart
ScanTrades(n, wallet, time, outcome) ==
    { [id |-> <<1, i>>, market_id |-> 1, wallet_address |-> wallet[i],
       timestamp |-> time[i], outcome_index |-> outcome[i]] : i \in 1..n }
    \cup
    { [id |-> <<2, w>>, market_id |-> 2, wallet_address |-> w,
       timestamp |-> TEMPORAL_WINDOW_SECONDS * (w - 1), outcome_index |-> 0] : w \in {1, 2} }

\* wallet 1 scores above the command line's floor, wallet 2 at it, wallet 3
\* below it
ScanScores == [w \in ScanWallets |-> CASE w = 1 -> 60 [] w = 2 -> DEFAULT_MIN_SCORE [] OTHER -> 10]

InitScan ==
    /\ IngestRest /\ MonitorIdle /\ LimiterIdle /\ RetryIdle /\ FingerprintIdle /\ StatsIdle
    /\ \E n \in 0..MaxScanTrades :
        \E wallet \in [1..n -> ScanWallets], time \in [1..n -> ScanTimes],
           outcome \in [1..n -> {0, 1}] :
            /\ \A i, j \in 1..n : i < j => time[i] <= time[j]
            /\ trades = ScanTrades(n, wallet, time, outcome)
    /\ graph = EmptyGraph
    /\ dpc = DetectorIdle
    /\ clusters = << >>
    /\ clusters_table = {}
    /\ wallet_scores = [w \in ScanWallets |-> NoCluster]
    /\ insider_score = ScanScores
    /\ conn = NoConn

NextScan ==
    \/ \E min_score \in MinScores : RunCall(min_score)
    \/ ScanMarket
    \/ PruneEdges

SpecScan == InitScan /\ [][NextScan]_vars

\* the loop over the markets is over and nothing has been pruned yet
GraphBuilt == dpc.pc = "scan" /\ MarketsLeft = {}

\* the pairs of trades, one by each of two distinct wallets among ws, on the
\* same market and at most the window apart
QualifyingPairs(ws) ==
    {p \in {{a, b} : a \in trades, b \in trades} :
        \E a \in p, b \in p :
            /\ a.market_id = b.market_id
            /\ a.wallet_address # b.wallet_address
            /\ {a.wallet_address, b.wallet_address} \subseteq ws
            /\ b.timestamp - a.timestamp \in 0..TEMPORAL_WINDOW_SECONDS}

\* the edge data the pairs amount to for the wallets e
StatedEdge(e, ws) ==
    [weight |-> Cardinality({p \in QualifyingPairs(ws) : PairWallets(p) = e}),
     same_side_count |->
        Cardinality({p \in QualifyingPairs(ws) : PairWallets(p) = e /\ SameSide(p)})]

TradingWallets == {t.wallet_address : t \in trades}

WalletPairs == {e \in SUBSET TradingWallets : Cardinality(e) = 2}

\* the wallets whose trades the scan is given
ScannedWallets ==
    IF dpc.min_score > 0 THEN dpc.high_risk_wallets ELSE TradingWallets

\* C30 (as stated): once the graph is built and before pruning, the edge
\* of every two distinct wallets carries as weight the number of their
\* pairs of trades on one market at most 300 seconds apart, over all
\* markets, and as same_side_count the number of those on one outcome index.
C30_PairScan_EveryWallet ==
    GraphBuilt =>
        \A e \in WalletPairs : EdgeData(graph, e) = StatedEdge(e, TradingWallets)

\* C30 (amended): the same, for every two distinct wallets that pass the
\* min_score floor (all wallets when min_score is 0): no qualifying pair is
\* skipped by the break and none is counted twice; wallets below the floor
\* have no edge.
C30_PairScan ==
    GraphBuilt =>
        /\ DOMAIN graph.edges \subseteq WalletPairs
        /\ \A e \in WalletPairs : EdgeData(graph, e) = StatedEdge(e, ScannedWallets)

\* the graph is built from a market on which a wallet has two trades within
\* the window, two wallets have trades more than the window apart, and an
\* edge has counted two pairs of which not both are on one side
C30_Witness ==
    /\ GraphBuilt
    /\ \E a, b \in trades :
        /\ a # b /\ a.market_id = b.market_id
        /\ a.wallet_address = b.wallet_address
        /\ b.timestamp - a.timestamp \in 0..TEMPORAL_WINDOW_SECONDS
    /\ \E a, b \in trades :
        /\ a.market_id = b.market_id
        /\ a.wallet_address # b.wallet_address
        /\ b.timestamp - a.timestamp > TEMPORAL_WINDOW_SECONDS
    /\ \E e \in DOMAIN graph.edges :
        /\ graph.edges[e].weight >= 2
        /\ graph.edges[e].same_side_count \in 1..(graph.edges[e].weight - 1)
\* ---------------------------------------------------------------------
\* ClusterDetector.run on stores of hub wallets: stores large enough for
\* wallets to pass the degree filter
\* ---------------------------------------------------------------------

\* the number of hub wallets of a scenario
HubCount == 3

Hubs == 1..HubCount

\* the leaves of a hub are wallets that co-trade with that hub alone; with
\* LeafCount of them a hub that co-trades with every other hub has
\* MIN_DEGREE neighbours
LeafCount == MIN_DEGREE - (HubCount - 1)

Leaves(h, n) == {100 * h + i : i \in 1..n}

\* the largest n such that n trades against n trades stay below
\* MIN_EDGE_WEIGHT pairs while n against n + 1 reach it
WeakSide == CHOOSE n \in 1..MIN_EDGE_WEIGHT :
                n * n < MIN_EDGE_WEIGHT /\ n * (n + 1) >= MIN_EDGE_WEIGHT

\* the trades on market m of a scenario: wallet a trades WeakSide times on
\* outcome 0, then wallet b trades nb times on outcome side, one second
\* apart
EdgeTrades(m, a, b, nb, side) ==
    { [id |-> <<m, i>>, market_id |-> m,
       wallet_address |-> IF i <= WeakSide THEN a ELSE b,
       timestamp |-> i,
       outcome_index |-> IF i <= WeakSide THEN 0 ELSE side] : i \in 1..(WeakSide + nb) }

\* the trades on market m of a scenario on which hub h co-trades with two
\* of its leaves: leaf la trades WeakSide times, then h trades
\* WeakSide + 1 times within the window of them, then leaf lb trades
\* WeakSide times within the window of h and beyond the window of la
LeafPairTrades(m, h, la, lb) ==
    { [id |-> <<m, i>>, market_id |-> m, wallet_address |-> la,
       timestamp |-> i, outcome_index |-> 0] : i \in 1..WeakSide }
    \cup
    { [id |-> <<m, WeakSide + i>>, market_id |-> m, wallet_address |-> h,
       timestamp |-> TEMPORAL_WINDOW_SECONDS - 10 + i, outcome_index |-> 0] :
            i \in 1..(WeakSide + 1) }
    \cup
    { [id |-> <<m, 2 * WeakSide + 1 + i>>, market_id |-> m, wallet_address |-> lb,
       timestamp |-> 2 * TEMPORAL_WINDOW_SECONDS - 20 + i, outcome_index |-> 0] :
            i \in 1..WeakSide }

\* the markets of hub h with n leaves: one for every two leaves, and one
\* for the last leaf when n is odd
LeafTrades(h, n) ==
    UNION { IF i < n
            THEN LeafPairTrades(100 * h + i, h, 100 * h + i, 100 * h + i + 1)
            ELSE EdgeTrades(100 * h + i, h, 100 * h + i, WeakSide + 1, 0) :
                i \in {j \in 1..n : j % 2 = 1} }

\* a wallet that co-trades with hub 1 and scores below every floor
Spare == 0

\* the trades table of a scenario: every two hubs co-trade one market,
\* every hub co-trades with each of its leaves, and hub 1 co-trades market
\* 1 with the spare wallet.  short: the last hub has one leaf less; weak:
\* hubs 1 and 2 co-trade one pair short of MIN_EDGE_WEIGHT; opposite: hubs
\* trade against each other
HubTrades(short, weak, opposite) ==
    EdgeTrades(1, 1, Spare, WeakSide + 1, 0)
    \cup
    UNION { EdgeTrades(10 * p[1] + p[2], p[1], p[2],
                       IF weak /\ p = <<1, 2>> THEN WeakSide ELSE WeakSide + 1,
                       IF opposite THEN 1 ELSE 0) :
                p \in {q \in Hubs \X Hubs : q[1] < q[2]} }
    \cup
    UNION { LeafTrades(h, IF short /\ h = HubCount THEN LeafCount - 1 ELSE LeafCount) :
                h \in Hubs }

HubWallets == {Spare} \cup Hubs \cup UNION {Leaves(h, LeafCount) : h \in Hubs}

\* wallet_scores.insider_score in a scenario: hubs and leaves above the
\* floor of the command line; hub 1 below it
HubScores ==
    { [w \in HubWallets |-> IF w = Spare THEN 10 ELSE 60],
      [w \in HubWallets |-> IF w \in {Spare, 1} THEN 10 ELSE 60] }

\* the scenarios: short, weak, opposite, at most one of them at a time
HubScenarios ==
    {<<FALSE, FALSE, FALSE>>, <<TRUE, FALSE, FALSE>>, <<FALSE, TRUE, FALSE>>,
     <<FALSE, FALSE, TRUE>>}

InitHubs ==
    /\ IngestRest /\ MonitorIdle /\ LimiterIdle /\ RetryIdle /\ FingerprintIdle /\ StatsIdle
    /\ \E sc \in HubScenarios : trades = HubTrades(sc[1], sc[2], sc[3])
    /\ graph = EmptyGraph
    /\ dpc = DetectorIdle
    /\ clusters = << >>
    /\ clusters_table = {}
    /\ wallet_scores = [w \in HubWallets |-> NoCluster]
    /\ insider_score \in HubScores
    /\ conn = NoConn

NextHubs ==
    \/ \E min_score \in MinScores : RunCall(min_score)
    \/ ScanMarket
    \/ PruneEdges
    \/ RemoveIsolates
    \/ RemoveLowDegree
    \/ Detect
    \/ RunSkipSave
    \/ RunSave
    \/ SaveDelete
    \/ SaveClearLinks
    \/ SaveInsert
    \/ SaveLink
    \/ SaveCommit
    \/ SaveRaise
    \/ RunAgain

SpecHubs == InitHubs /\ [][NextHubs]_vars

\* build_temporal_graph has returned its graph
GraphReturned == dpc.pc \notin {"idle", "scan", "isolates", "low_degree"}

\* the edges of g at node n of weight MIN_EDGE_WEIGHT or more
StrongEdgesAt(g, n) ==
    {e \in DOMAIN g.edges : n \in e /\ g.edges[e].weight >= MIN_EDGE_WEIGHT}

\* C31: weak edges are removed before degrees are evaluated: a node that
\* the degree filter keeps had at least MIN_DEGREE incident edges of weight
\* MIN_EDGE_WEIGHT or more in the graph as built; weak edges never count
\* toward a node's degree.
C31_PruningOrder ==
    GraphReturned =>
        \A n \in graph.nodes : Cardinality(StrongEdgesAt(dpc.built, n)) >= MIN_DEGREE

\* the returned graph keeps a node, and has dropped a node that had
\* MIN_DEGREE edges as built, one of them weak
C31_Witness ==
    /\ GraphReturned
    /\ graph.nodes # {}
    /\ \E n \in dpc.built.nodes \ graph.nodes :
        /\ Degree(dpc.built, n) >= MIN_DEGREE
        /\ Cardinality(StrongEdgesAt(dpc.built, n)) < MIN_DEGREE

\* C34: in the graph build_temporal_graph returns every edge has weight
\* MIN_EDGE_WEIGHT or more and every node has MIN_DEGREE or more edges in
\* that graph.
C34_PrunedGraph ==
    GraphReturned =>
        /\ \A e \in DOMAIN graph.edges : graph.edges[e].weight >= MIN_EDGE_WEIGHT
        /\ \A n \in graph.nodes : Degree(graph, n) >= MIN_DEGREE
\* the wallets of the clusters run returned
ClusterMembers == UNION {clusters[i].wallets : i \in DOMAIN clusters}

\* C33: when run is called with min_score > 0 only wallets whose stored
\* insider_score is min_score or more become nodes of the graph, so every
\* member of every returned cluster, and every wallet linked to a cluster,
\* has such a score; with min_score = 0 the trades of all wallets are used
\* (on these stores every wallet co-trades with another, so every wallet
\* is a node of the graph as built).
C33_ScoreFloor ==
    /\ dpc.min_score > 0 =>
        \A w \in graph.nodes \cup ClusterMembers
                \cup {x \in DOMAIN wallet_scores : wallet_scores[x] # NoCluster} :
            /\ w \in DOMAIN insider_score
            /\ insider_score[w] >= dpc.min_score
    /\ (dpc.min_score = 0 /\ GraphBuilt) => graph.nodes = TradingWallets

\* run with a floor has returned and persisted a cluster on a store where
\* a wallet below the floor co-trades with one of the cluster's members
C33_Witness ==
    /\ dpc.pc = "done"
    /\ dpc.min_score > 0
    /\ clusters # << >>
    /\ \E w \in DOMAIN wallet_scores : wallet_scores[w] # NoCluster
    /\ \E a, b \in trades :
        /\ a.market_id = b.market_id
        /\ a.wallet_address \in ClusterMembers
        /\ insider_score[b.wallet_address] < dpc.min_score
\* a returned list of clusters without its generated identifiers
Unnamed(cs) ==
    {[wallets |-> cs[i].wallets, wallet_count |-> cs[i].wallet_count,
      confidence |-> cs[i].confidence] : i \in DOMAIN cs}

\* C32: a second run on the unchanged store builds the graph the first run
\* built, from an empty graph and without the edge weights of the first,
\* and returns the clusters the first returned, up to their identifiers:
\* the same member sets, wallet counts and confidences.
C32_Reproducible ==
    dpc.first.ran =>
        /\ GraphReturned =>
            /\ dpc.built = dpc.first.built
            /\ graph = dpc.first.graph
        /\ dpc.pc \notin {"scan", "isolates", "low_degree", "detect"} =>
            Unnamed(clusters) = Unnamed(dpc.first.clusters)

\* the second run has returned a cluster, as the first did
C32_Witness ==
    /\ dpc.first.ran
    /\ dpc.pc = "done"
    /\ clusters # << >>
    /\ dpc.first.clusters # << >>
    /\ dpc.first.built.nodes # dpc.first.graph.nodes
\* ---------------------------------------------------------------------
\* Scoring runs and detection runs on one store
\* ---------------------------------------------------------------------

\* the wallets of the communities
MemberWallets == UNION {Community(i) : i \in 1..MaxClusters}

\* the score lists a scoring run saves: one wallet's score, or every
\* wallet's
ScoreLists == {{w} : w \in MemberWallets} \cup {MemberWallets}

\* WalletScorer.save_scores: INSERT OR REPLACE INTO wallet_scores of the
\* rows score_wallet made, whose cluster_id is None, and commit; an empty
\* list returns at once
SaveScores(rows, score) ==
    /\ conn = NoConn
    /\ dpc.pc \in {"detected", "done", "failed"}
    /\ rows # {}
    /\ wallet_scores' = [w \in DOMAIN wallet_scores \cup rows |->
                            IF w \in rows THEN NoCluster ELSE wallet_scores[w]]
    /\ insider_score' = [w \in DOMAIN insider_score \cup rows |->
                            IF w \in rows THEN score ELSE insider_score[w]]
    /\ UNCHANGED <<graph, dpc, clusters, clusters_table, conn>>
    /\ UNCHANGED <<ingestVars, monitorVars, limiterVars, retryVars, fingerprintVars, statsVars>>

\* a store without clusters, on which every member wallet or only the
\* wallets of ScoredWallets have been scored, and a detector about to save
\* what it detected
InitMembership ==
    /\ IngestIdle /\ MonitorIdle /\ LimiterIdle /\ RetryIdle /\ FingerprintIdle /\ StatsIdle
    /\ \E n \in 0..MaxClusters :
        /\ graph = Triangles(n)
        /\ clusters = Detected(n)
    /\ dpc = [DetectorIdle EXCEPT !.pc = "detected"]
    /\ clusters_table = {}
    /\ \E scored \in {ScoredWallets, MemberWallets} :
        /\ wallet_scores = [w \in scored |-> NoCluster]
        /\ insider_score = [w \in scored |-> 0]
    /\ conn = NoConn

NextMembership ==
    \/ RunSkipSave
    \/ RunSave
    \/ SaveDelete
    \/ SaveClearLinks
    \/ SaveInsert
    \/ SaveLink
    \/ SaveCommit
    \/ SaveRaise
    \/ \E rows \in ScoreLists : SaveScores(rows, DEFAULT_MIN_SCORE)

SpecMembership == InitMembership /\ [][NextMembership]_vars

\* the wallet_scores rows linked to the cluster named id
LinkedTo(id) == {w \in DOMAIN wallet_scores : wallet_scores[w] = id}

\* C35: in every persisted state every non-null wallet_scores.cluster_id
\* names an existing cluster row, and for every persisted cluster the
\* number of wallet_scores rows linked to it equals its wallet_count (a
\* wallet has one cluster_id, so it is linked to at most one cluster).
C35_Membership ==
    /\ \A w \in DOMAIN wallet_scores :
        wallet_scores[w] # NoCluster =>
            \E r \in clusters_table : r.cluster_id = wallet_scores[w]
    /\ \A r \in clusters_table : Cardinality(LinkedTo(r.cluster_id)) = r.wallet_count
\* ---------------------------------------------------------------------
\* The completion watermark
\* ---------------------------------------------------------------------

\* the trades stored for a market, in the store the writer writes to
StoredFor(m, sqlite, duckdb) ==
    IF USE_DUCKDB THEN {t \in duckdb : t.market_id = m}
    ELSE {t \in sqlite : t.market_id = m}

\* C36: whenever the writer writes a market's completion watermark, the
\* value it stores is the number of trades stored for that market at that
\* moment, also when the feed returned a trade in more than one page.
C36_WatermarkCount ==
    [][(cpc = "complete" /\ cpc' = "get") =>
            istate'.market_trades[cur.market_id]
                = Cardinality(StoredFor(cur.market_id, trades', duck'))]_vars

\* ---------------------------------------------------------------------
\* The significance component over the whole range of p-values
\* ---------------------------------------------------------------------

\* p <= q for p-values given as 0 or 10^-exp
PLeq(p, q) == p.zero \/ (~q.zero /\ p.exp >= q.exp)

\* the p-value 1e-15
FullMarks == [zero |-> FALSE, exp |-> 15]

\* C37: with the other inputs fixed, composite_insider_score never gives a
\* p-value a lower score than a larger p-value, p = 0 included, and every
\* p <= 1e-15 earns the full 40 significance points.
C37_Monotone ==
    (call.fn = "composite_insider_score" /\ call.done) =>
        /\ \A q \in PValues :
              PLeq(call.args.p_value, q) =>
                  call.result >= composite_insider_score(call.args.win_rate, q,
                                     call.args.timing_avg, call.args.size_corr,
                                     call.args.total_pnl, call.args.total_trades)
        /\ PLeq(call.args.p_value, FullMarks) =>
              Significance(call.args.p_value) = 40 * PointUnit

\* ---------------------------------------------------------------------
\* Trade pagination (iter_trades_for_market without a time cutoff)
\* ---------------------------------------------------------------------

\* Data APIs whose list of c1 ends in a short page (the first) or at a page
\* boundary (the second); the list of c2 is empty
DataFeedPages ==
    { [c \in ConditionIds |->
         IF c = "c1" THEN <<RawTrade("a", c, 0), RawTrade("b", c, 1), RawTrade("c", c, 0)>>
         ELSE << >>],
      [c \in ConditionIds |->
         IF c = "c1" THEN <<RawTrade("a", c, 0), RawTrade("b", c, 1)>>
         ELSE << >>] }

InitPages ==
    /\ markets = upsert_markets(<< >>, [i \in DOMAIN GammaFeed |->
                                          normalize_market(GammaFeed[i])])
    /\ trades = {}
    /\ istate = [market_offset |-> <<Len(GammaFeed)>>, market_trades |-> << >>]
    /\ duck = {}
    /\ USE_DUCKDB \in BOOLEAN
    /\ dataFeed \in DataFeedPages
    /\ mpc = "start"
    /\ selected = {}
    /\ queue = << >>
    /\ unfinished = 0
    /\ sem = CONCURRENCY
    /\ prod = [m \in MarketIds |-> Idle]
    /\ cpc = "idle"
    /\ batch = << >>
    /\ cur = NoItem
    /\ result = 0
    /\ p1 = [pc |-> "done", full |-> FALSE, offset |-> Len(GammaFeed), page |-> << >>,
              next_offset |-> Len(GammaFeed), total |-> Len(GammaFeed)]
    /\ runs = 1
    /\ hist = NoHistory
    /\ OthersIdle

SpecPages == InitPages /\ [][Next]_vars

\* start_offset: the producer passes none, the default is 0
START_OFFSET == 0

\* an answer after which the iteration ends: no page (empty or status 400)
\* or a page shorter than the page size
Ending(r) == r.len < DATA_API_PAGE_SIZE

\* the ids of the first n trades of a market's list
YieldedIds(m, n) ==
    LET all == NormalizePage(SubSeq(dataFeed[markets[m].condition_id], 1, n), m)
    IN  [i \in 1..n |-> all[i].id]

\* C38: without a time cutoff the requests of a market go to the offsets
\* start, start + |page 1|, start + |page 1| + |page 2|, ... in that order;
\* every non-empty page is yielded once, in request order; no request follows
\* a page that is empty, short or answered with status 400, the iteration
\* does not end before such a page, and a 400 ends the market like an empty
\* page (the end-of-market item follows), never as a failure.
C38_Pagination ==
    \A m \in MarketIds :
        LET rq == hist.offs[m]
            n == Len(rq)
        IN  /\ n > 0 => rq[1].offset = START_OFFSET
            /\ \A i \in 1..(n - 1) :
                  /\ rq[i + 1].offset = rq[i].offset + rq[i].len
                  /\ ~Ending(rq[i])
            /\ n > 0 => hist.fet[m] = YieldedIds(m, rq[n].offset + rq[n].len - START_OFFSET)
            /\ (n > 0 /\ Ending(rq[n])) =>
                  /\ prod[m].pc \in {"put", "sentinel", "done"}
                  /\ rq[n].len = 0 => prod[m].pc \in {"sentinel", "done"}
                  /\ m \notin hist.reqfail
            /\ prod[m].pc = "sentinel" => (n > 0 /\ Ending(rq[n]))
            /\ (prod[m].pc = "done" /\ markets[m].condition_id # NULL) =>
                  (n > 0 /\ Ending(rq[n]))

\* a run has read c1 in a full page and a request past the end answered
\* with status 400, and the empty list of c2 in one request answered with
\* status 400; both markets got their watermark
C38_Witness ==
    /\ hist.offs["m1"] = <<[offset |-> 0, status |-> 200, len |-> 2],
                           [offset |-> 2, status |-> 400, len |-> 0]>>
    /\ hist.offs["m2"] = <<[offset |-> 0, status |-> 400, len |-> 0]>>
    /\ \A m \in {"m1", "m2"} : HasWatermark(istate, m)

(***************************************************************************)
(* InsiderMonitor (src/alerts/monitor.py): run loads the flagged wallets,  *)
(* then polls the most recent trades of the Data API and alerts on the     *)
(* trades of flagged wallets it has not seen.                              *)
(***************************************************************************)
\* the size of the seen-id set above which it is cut down (10000 in the source)
SEEN_MAX == 2

\* the number of ids the cut keeps (5000 in the source)
SEEN_KEEP == 1

\* the page size of a poll (100 in the source)
POLL_LIMIT == 2

\* the polls of one run of the model
MaxPolls == 3

MIN_SCORE_TO_MONITOR == 25

MonitorWallets == {"w", "x"}

\* the scores table: wallet w is flagged, wallet x is not
MonitorScores == [w \in MonitorWallets |-> IF w = "w" THEN 60 ELSE 10]

\* the recent trades the Data API can serve
MonitorTrades ==
    {[RawTrade(tx, "c1", 0) EXCEPT !.proxyWallet = w] :
        tx \in {"a", "b", "c"}, w \in MonitorWallets}

\* a page of recent trades: at most POLL_LIMIT trades
MonitorPages == UNION {[1..n -> MonitorTrades] : n \in 0..POLL_LIMIT}

\* load_flagged_wallets: SELECT * FROM wallet_scores WHERE insider_score >= ?
load_flagged_wallets(min_score) ==
    {w \in DOMAIN insider_score : insider_score[w] >= min_score}

\* poll_recent_trades, the loop over the page: the flagged trades not seen
\* before, and the seen ids after the loop
RECURSIVE Filter(_, _, _, _)
Filter(page, flagged, seen_ids, found) ==
    IF page = << >> THEN [flagged_trades |-> found, seen_trade_ids |-> seen_ids]
    ELSE LET trade == Head(page)
             trade_id == make_trade_id(trade)
         IN  IF trade.proxyWallet \notin flagged \/ trade_id \in seen_ids
             THEN Filter(Tail(page), flagged, seen_ids, found)
             ELSE Filter(Tail(page), flagged, seen_ids \cup {trade_id},
                         Append(found, trade))

\* "Keep seen set from growing unbounded": set(list(ids)[-5000:]) keeps the
\* last ids of the set's iteration order, which is the order of the hash
\* table, not of insertion: any SEEN_KEEP of the ids may be the ones kept
Trimmed(seen_ids) ==
    IF Cardinality(seen_ids) > SEEN_MAX
    THEN {kept \in SUBSET seen_ids : Cardinality(kept) = SEEN_KEEP}
    ELSE {seen_ids}

MonitorFrame ==
    UNCHANGED <<ingestVars, limiterVars, retryVars, fingerprintVars, clusterVars, statsVars>>

\* run, up to the loop: the flagged wallets are loaded; none ends the run
MonitorRun ==
    /\ mon.pc = "idle"
    /\ LET flagged == load_flagged_wallets(MIN_SCORE_TO_MONITOR)
       IN  mon' = [mon EXCEPT !.running = TRUE, !.flagged_wallets = flagged,
                              !.pc = IF flagged = {} THEN "returned" ELSE "loop"]
    /\ MonitorFrame

\* run: the test of the while loop
MonitorLoop ==
    /\ mon.pc = "loop"
    /\ mon' = [mon EXCEPT !.pc = IF mon.running THEN "poll" ELSE "returned"]
    /\ MonitorFrame

\* poll_recent_trades on the page the Data API serves
MonitorPoll ==
    /\ mon.pc = "poll"
    /\ mon.polls < MaxPolls
    /\ \E page \in MonitorPages :
         LET r == Filter(page, mon.flagged_wallets, mon.seen_trade_ids, << >>)
         IN  \E kept \in Trimmed(r.seen_trade_ids) :
                mon' = [mon EXCEPT !.pc = "alert", !.polls = @ + 1,
                                   !.seen_trade_ids = kept,
                                   !.flagged_trades = r.flagged_trades]
    /\ MonitorFrame

\* poll_recent_trades: the request raises, the poll returns no trade
MonitorPollFails ==
    /\ mon.pc = "poll"
    /\ mon.polls < MaxPolls
    /\ mon' = [mon EXCEPT !.pc = "alert", !.polls = @ + 1, !.flagged_trades = << >>]
    /\ MonitorFrame

\* run: alert_on_trade for the next flagged trade of the poll
MonitorAlert ==
    /\ mon.pc = "alert"
    /\ mon.flagged_trades # << >>
    /\ mon' = [mon EXCEPT !.flagged_trades = Tail(@),
                          !.alerted = Append(@, Head(mon.flagged_trades))]
    /\ MonitorFrame

\* run: asyncio.sleep(poll_interval) after the last alert of the poll
MonitorSleep ==
    /\ mon.pc = "alert"
    /\ mon.flagged_trades = << >>
    /\ mon' = [mon EXCEPT !.pc = "loop"]
    /\ MonitorFrame

\* stop
MonitorStop ==
    /\ mon.running
    /\ mon' = [mon EXCEPT !.running = FALSE]
    /\ MonitorFrame

InitMonitor ==
    /\ IngestIdle /\ LimiterIdle /\ RetryIdle /\ FingerprintIdle /\ StatsIdle
    /\ mon = NoMonitor
    /\ graph = EmptyGraph
    /\ dpc = DetectorIdle
    /\ clusters = << >>
    /\ clusters_table = {}
    /\ wallet_scores = [w \in MonitorWallets |-> NoCluster]
    /\ insider_score = MonitorScores
    /\ conn = NoConn

NextMonitor ==
    \/ MonitorRun
    \/ MonitorLoop
    \/ MonitorPoll
    \/ MonitorPollFails
    \/ MonitorAlert
    \/ MonitorSleep
    \/ MonitorStop

SpecMonitor == InitMonitor /\ [][NextMonitor]_vars

\* C39: across the polls of a run the monitor alerts only on trades whose
\* proxy wallet is in the flagged set loaded at the start, it alerts at most
\* once per trade fingerprint, also for a trade served in several polls and
\* after the seen ids were cut down, and the seen ids never number more
\* than the limit plus one poll's worth.
C39_Alerting ==
    /\ \A i \in DOMAIN mon.alerted :
          mon.alerted[i].proxyWallet \in load_flagged_wallets(MIN_SCORE_TO_MONITOR)
    /\ \A i, j \in DOMAIN mon.alerted :
          make_trade_id(mon.alerted[i]) = make_trade_id(mon.alerted[j]) => i = j
    /\ Cardinality(mon.seen_trade_ids) <= SEEN_MAX + POLL_LIMIT
====
